---- MODULE Spec2Model ----
(***************************************************************************)
(* Loan purchase pipeline: run orchestration (backend/orchestration/       *)
(* pipeline.py), its callers (backend/api/routes.py, backend/scheduler/    *)
(* job_scheduler.py), the cancel endpoint and the administrative script    *)
(* backend/scripts/fix_stuck_runs.py, all working on the same run store.   *)
(*                                                                         *)
(* Concurrency model: every request handler, scheduled job and script      *)
(* invocation is a process with its own database session; a step of a      *)
(* process ends at a commit (or at the end of the handler), and steps of    *)
(* different processes interleave freely.  A commit of an ORM object        *)
(* writes the attributes the process assigned, whatever the row holds.     *)
(***************************************************************************)
EXTENDS Integers, Sequences, FiniteSets, TLC

(* ---------------------------------------------------------------- bounds *)
NumReq == 2            \* run requests (API or scheduler) in one behaviour
MaxBuy == 1            \* rows of the merged channel submissions (buy_df)

Procs == 1 .. NumReq
RunIds == Procs        \* RunContext.create draws a fresh run_id per request

(* ------------------------------------------------------- users and teams *)
NoTeam == 0            \* sales_team_id IS NULL
Teams == {1}
Users == {"admin", "s1"}

Role(u) == IF u = "admin" THEN "admin" ELSE "sales_team"
UserTeam(u) == IF u = "admin" THEN NoTeam ELSE 1

(* ------------------------------------------------------------- RunStatus *)
PENDING == "pending"
RUNNING == "running"
COMPLETED == "completed"
FAILED == "failed"
CANCELLED == "cancelled"
NoRow == "none"        \* no PipelineRun row with this run_id
Terminal == {COMPLETED, FAILED, CANCELLED}

VARIABLES
    runs,            \* pipeline_runs table: run_id -> row
    loanExceptions,  \* loan_exceptions table: run_id -> committed rows, in insertion order
    loanFacts,       \* loan_facts table: run_id -> committed rows, in insertion order
    proc,            \* run requests: position in the caller and in execute()
    cancel,          \* the cancel_run request in flight
    fix,             \* the fix_stuck_runs.py invocation in flight
    inp,             \* input data of the run driven through the persistence stage
    hist,            \* history: what was written by whom
    call             \* a rule or transform function called on its own: arguments, result

vars == <<runs, loanExceptions, loanFacts, proc, cancel, fix, inp, hist, call>>

EmptyRow ==
    [status |-> NoRow, team |-> NoTeam, errors |-> <<>>, started_at |-> FALSE,
     completed_at |-> FALSE, last_phase |-> "null", total_loans |-> 0,
     exceptions_count |-> 0]

IdleProc ==
    [pc |-> "idle", kind |-> "none", user |-> "none", team |-> NoTeam, phase |-> 0,
     exc |-> "none", created |-> FALSE, resp |-> 0, result |-> "none"]

IdleCancel == [pc |-> "idle", run |-> 0, errs |-> <<>>, resp |-> 0]

NoCall == [pc |-> "none"]

IdleFix == [pc |-> "idle", sel |-> {}, mark |-> "none", errs |-> <<>>]

NoInput == [buy |-> <<>>, existing |-> <<>>]

InitHist ==
    [written |-> [r \in RunIds |-> <<>>],     \* status values written by the executor
     cancelled |-> [r \in RunIds |-> FALSE],  \* cancel_run committed on the run
     admin |-> [r \in RunIds |-> FALSE],      \* fix_stuck_runs.py committed on the run
     inputFault |-> [p \in Procs |-> FALSE],  \* a stage raised because of its input
     stages |-> [p \in Procs |-> <<>>]]       \* phases whose body was executed, in order

(* ------------------------------------------------------------ the phases *)
Phases ==
    <<"load_reference_data", "load_input_files", "normalize_loans", "underwriting",
      "comap", "eligibility", "export_reports", "save_db">>

ComapPhase == 5
SaveDbPhase == 8
\* phases whose body reads files or tables and raises on a missing file, sheet or column
InputStages == {1, 2, 3, 4, 6, 7}

(* ------------------------------------------------- routes.filter_by_sales_team *)
filter_by_sales_team(R, u) ==
    IF Role(u) = "sales_team" /\ UserTeam(u) # NoTeam
    THEN {r \in R : runs[r].team = UserTeam(u)}
    ELSE R

RunningRuns == {r \in RunIds : runs[r].status = RUNNING}

(* ------------------------------------------ PipelineExecutor, run record *)
\* variant: the record is created already RUNNING
NewRunRecord_running(t) == [EmptyRow EXCEPT !.status = RUNNING, !.team = t]

NewRunRecord(t) == [EmptyRow EXCEPT !.status = PENDING, !.team = t]

\* variant: completed_at is stamped for COMPLETED only
UpdateRunStatus_completedOnly(row, st, kw) ==
    LET r1 == [row EXCEPT !.status = st]
        r2 == IF st = RUNNING THEN [r1 EXCEPT !.started_at = TRUE]
              ELSE IF st = COMPLETED THEN [r1 EXCEPT !.completed_at = TRUE]
              ELSE r1
    IN  [f \in DOMAIN r2 |-> IF f \in DOMAIN kw THEN kw[f] ELSE r2[f]]

\* update_run_status(status, **kwargs): kw is the record of keyword arguments
UpdateRunStatus(row, st, kw) ==
    LET r1 == [row EXCEPT !.status = st]
        r2 == IF st = RUNNING THEN [r1 EXCEPT !.started_at = TRUE]
              ELSE IF st \in {COMPLETED, FAILED} THEN [r1 EXCEPT !.completed_at = TRUE]
              ELSE r1
    IN  [f \in DOMAIN r2 |-> IF f \in DOMAIN kw THEN kw[f] ELSE r2[f]]

NoKw == [x \in {} |-> 0]

\* variant: the phase is not recorded
SetPhase_unrecorded(row, ph) == row

\* pipeline.py 178-182
SetPhase(row, ph) == [row EXCEPT !.last_phase = ph]

Wrote(h, r, st) == [h EXCEPT !.written[r] = Append(@, st)]

(* ------------------------------------------------ loan tables of one run *)
(* A row of buy_df or of existing_file, with the outcome of each rule on   *)
(* it: pp is purchase_price_check, fS / fP / fN say that the loan is in    *)
(* flagged_loans_sfy / flagged_loans_prime / flagged_notes, nc that it is  *)
(* in loan_not_in_comap; kind is the channel the CoMAP check reports.      *)
Row(id, src, kind, pp, fS, fP, fN, nc, recent) ==
    [id |-> id, src |-> src, kind |-> kind, pp |-> pp, fS |-> fS, fP |-> fP,
     fN |-> fN, nc |-> nc, recent |-> recent]

\* check_underwriting(is_notes=False) checks the rows that are not HD NOTE with
\* each of the two grids, check_underwriting(is_notes=True) the HD NOTE rows;
\* the check_comap_* functions only see rows with purchase_price_check == True.
BuyProfiles ==
    {Row(0, "buy", k, pp, fS, fP, FALSE, nc, TRUE) :
        k \in {"PRIME", "SFY"}, pp \in BOOLEAN, fS \in BOOLEAN, fP \in BOOLEAN,
        nc \in BOOLEAN}
    \cup {Row(0, "buy", "NOTES", pp, FALSE, FALSE, fN, nc, TRUE) :
        pp \in BOOLEAN, fN \in BOOLEAN, nc \in BOOLEAN}

BuyRows == {r \in BuyProfiles : r.nc => r.pp}

\* buy_df: row i carries loan number i
BuyTables ==
    UNION {[1 .. n -> BuyRows] : n \in 0 .. MaxBuy}

WithIds(t) == [i \in 1 .. Len(t) |-> [t[i] EXCEPT !.id = i]]

\* current_assets.csv: a loan number of its own, or one that is also submitted
ExistingRows ==
    {Row(id, "existing", "EXISTING", pp, FALSE, FALSE, FALSE, FALSE, recent) :
        id \in {1, MaxBuy + 1}, pp \in BOOLEAN, recent \in BOOLEAN}

\* (the price check of a row that line 323 drops is never read)
ExistingTables ==
    {<<>>} \cup {<<r>> : r \in {x \in ExistingRows : x.recent \/ x.pp}}

Inputs == {[buy |-> WithIds(b), existing |-> e] : b \in BuyTables, e \in ExistingTables}

MapRows(t, F(_)) == [i \in 1 .. Len(t) |-> F(t[i])]

\* pipeline.py 323: final_df = concat(buy_df, existing_file[Purchase_Date > 2025-10-01])
FinalDf(in) ==
    LET Recent(r) == r.recent IN in.buy \o SelectSeq(in.existing, Recent)

Exc(id, type, cat) ==
    [seller_loan_number |-> id, exception_type |-> type, exception_category |-> cat,
     severity |-> "error"]

\* rules/purchase_price.py get_purchase_price_exceptions
get_purchase_price_exceptions(df) ==
    LET Mismatch(r) == ~r.pp
        E(r) == Exc(r.id, "purchase_price", "mismatch")
    IN  MapRows(SelectSeq(df, Mismatch), E)

\* rules/underwriting.py get_underwriting_exceptions
get_underwriting_exceptions(buy_df, flagged, type) ==
    LET IsIn(r) == r.id \in flagged
        E(r) == Exc(r.id, type, "flagged")
    IN  MapRows(SelectSeq(buy_df, IsIn), E)

flagged_loans_sfy(buy_df) == {buy_df[i].id : i \in {j \in 1 .. Len(buy_df) : buy_df[j].fS}}
flagged_loans_prime(buy_df) == {buy_df[i].id : i \in {j \in 1 .. Len(buy_df) : buy_df[j].fP}}
flagged_notes(buy_df) == {buy_df[i].id : i \in {j \in 1 .. Len(buy_df) : buy_df[j].fN}}

\* pipeline.py 357-366: the three CoMAP lists, Prime then SFY then Notes
loan_not_in_comap(buy_df) ==
    LET P(r) == r.kind = "PRIME" /\ r.nc
        S(r) == r.kind = "SFY" /\ r.nc
        N(r) == r.kind = "NOTES" /\ r.nc
    IN  SelectSeq(buy_df, P) \o SelectSeq(buy_df, S) \o SelectSeq(buy_df, N)

\* pipeline.py 369-380
comap_exceptions(lst) ==
    LET E(r) == Exc(r.id,
                    IF r.kind = "PRIME" THEN "comap_prime"
                    ELSE IF r.kind = "SFY" THEN "comap_sfy" ELSE "comap_notes",
                    "not_in_comap")
    IN  MapRows(lst, E)

\* pipeline.py 332-380: all_exceptions, in the order the rules are evaluated
all_exceptions(in) ==
    get_purchase_price_exceptions(FinalDf(in))
    \o get_underwriting_exceptions(in.buy, flagged_loans_sfy(in.buy), "underwriting_sfy")
    \o get_underwriting_exceptions(in.buy, flagged_loans_prime(in.buy), "underwriting_prime")
    \o get_underwriting_exceptions(in.buy, flagged_notes(in.buy), "underwriting_notes")
    \o comap_exceptions(loan_not_in_comap(in.buy))

(* ------------------------------------------ config/rejection_criteria.py *)
EXCEPTION_TYPE_TO_CRITERIA ==
    (<<"purchase_price", "mismatch">> :> "notebook.purchase_price_mismatch")
    @@ (<<"underwriting", "flagged">> :> "notebook.underwriting_prime")
    @@ (<<"underwriting_sfy", "flagged">> :> "notebook.underwriting_sfy")
    @@ (<<"underwriting_prime", "flagged">> :> "notebook.underwriting_prime")
    @@ (<<"underwriting_notes", "flagged">> :> "notebook.underwriting_notes")
    @@ (<<"comap", "not_in_comap">> :> "notebook.comap_prime")
    @@ (<<"comap_prime", "not_in_comap">> :> "notebook.comap_prime")
    @@ (<<"comap_sfy", "not_in_comap">> :> "notebook.comap_sfy")
    @@ (<<"comap_notes", "not_in_comap">> :> "notebook.comap_notes")
    @@ (<<"eligibility", "failed">> :> "notebook.eligibility_prime")
    @@ (<<"eligibility_prime", "failed">> :> "notebook.eligibility_prime")
    @@ (<<"eligibility_sfy", "failed">> :> "notebook.eligibility_sfy")

Null == "null"

get_rejection_criteria(type, cat) ==
    IF <<type, cat>> \in DOMAIN EXCEPTION_TYPE_TO_CRITERIA
    THEN EXCEPTION_TYPE_TO_CRITERIA[<<type, cat>>]
    ELSE IF <<type, "">> \in DOMAIN EXCEPTION_TYPE_TO_CRITERIA
         THEN EXCEPTION_TYPE_TO_CRITERIA[<<type, "">>]
         ELSE Null

(* --------------------------------- disposition and persistence of a run *)
DISPOSITION_TO_PURCHASE == "to_purchase"
DISPOSITION_PROJECTED == "projected"
DISPOSITION_REJECTED == "rejected"

\* variant: the last rejection_criteria per loan wins
RECURSIVE build_rejected_last(_, _)
build_rejected_last(excs, acc) ==
    IF excs = <<>> THEN acc
    ELSE LET e == Head(excs)
             rc == get_rejection_criteria(e.exception_type, e.exception_category)
         IN  IF rc = Null
             THEN build_rejected_last(Tail(excs), acc)
             ELSE build_rejected_last(Tail(excs),
                    (e.seller_loan_number :> rc) @@ acc)

\* pipeline.py 420-431: first rejection_criteria per loan (a loan number is never
\* empty here, so the `not sn` test never skips)
RECURSIVE build_rejected(_, _)
build_rejected(excs, acc) ==
    IF excs = <<>> THEN acc
    ELSE LET e == Head(excs)
             rc == get_rejection_criteria(e.exception_type, e.exception_category)
         IN  IF e.seller_loan_number \in DOMAIN acc \/ rc = Null
             THEN build_rejected(Tail(excs), acc)
             ELSE build_rejected(Tail(excs), acc @@ (e.seller_loan_number :> rc))

rejected_loans(excs) == build_rejected(excs, [x \in {} |-> Null])

\* save_exceptions: one LoanException per entry, in order
exception_row(e) ==
    [seller_loan_number |-> e.seller_loan_number, exception_type |-> e.exception_type,
     exception_category |-> e.exception_category, severity |-> e.severity,
     rejection_criteria |->
        get_rejection_criteria(e.exception_type, e.exception_category)]

save_exceptions(excs) == MapRows(excs, exception_row)

\* variant: the rejection code is not copied to the fact
loan_fact_noCriteria(row, rejected) ==
    [seller_loan_number |-> row.id,
     purchase_price_check |-> row.pp,
     disposition |-> IF row.id \in DOMAIN rejected THEN DISPOSITION_REJECTED
                     ELSE DISPOSITION_TO_PURCHASE,
     rejection_criteria |-> Null,
     loan_data |-> row]

\* save_loan_facts: one LoanFact per row of final_df
loan_fact(row, rejected) ==
    [seller_loan_number |-> row.id,
     purchase_price_check |-> row.pp,
     disposition |-> IF row.id \in DOMAIN rejected THEN DISPOSITION_REJECTED
                     ELSE DISPOSITION_TO_PURCHASE,
     rejection_criteria |-> IF row.id \in DOMAIN rejected THEN rejected[row.id] ELSE Null,
     loan_data |-> row]

save_loan_facts(final_df, rejected) ==
    [i \in 1 .. Len(final_df) |-> loan_fact(final_df[i], rejected)]

(* ===================================================== run requests ==== *)
\* requests are numbered in their order of arrival
NextArrival(p) == proc[p].pc = "idle" /\ \A q \in Procs : q < p => proc[q].pc # "idle"

\* variant: the request is accepted without looking for a RUNNING run
create_pipeline_run_nocheck(p, u) ==
    /\ NextArrival(p)
    /\ proc' = [proc EXCEPT ![p] = [@ EXCEPT !.pc = "create", !.kind = "api",
                        !.user = u,
                        !.team = IF Role(u) = "sales_team" THEN UserTeam(u) ELSE NoTeam]]
    /\ UNCHANGED <<call, runs, loanExceptions, loanFacts, cancel, fix, inp, hist>>

\* variant: a cancelled run keeps the slot
create_pipeline_run_cancelledBlocks(p, u) ==
    /\ NextArrival(p)
    /\ IF filter_by_sales_team({r \in RunIds : runs[r].status \in {RUNNING, CANCELLED}}, u) # {}
       THEN proc' = [proc EXCEPT ![p] = [@ EXCEPT !.pc = "done", !.kind = "api",
                                                  !.user = u, !.resp = 409]]
       ELSE proc' = [proc EXCEPT ![p] = [@ EXCEPT !.pc = "create", !.kind = "api",
                        !.user = u,
                        !.team = IF Role(u) = "sales_team" THEN UserTeam(u) ELSE NoTeam]]
    /\ UNCHANGED <<call, runs, loanExceptions, loanFacts, cancel, fix, inp, hist>>

(* routes.create_pipeline_run, up to the call of execute(): the request is *)
(* rejected with 409 when a RUNNING run is in the caller's scope.          *)
create_pipeline_run(p, u) ==
    /\ NextArrival(p)
    /\ IF filter_by_sales_team(RunningRuns, u) # {}
       THEN proc' = [proc EXCEPT ![p] = [@ EXCEPT !.pc = "done", !.kind = "api",
                                                  !.user = u, !.resp = 409]]
       ELSE proc' = [proc EXCEPT ![p] = [@ EXCEPT !.pc = "create", !.kind = "api",
                        !.user = u,
                        !.team = IF Role(u) = "sales_team" THEN UserTeam(u) ELSE NoTeam]]
    /\ UNCHANGED <<call, runs, loanExceptions, loanFacts, cancel, fix, inp, hist>>

\* job_scheduler.run_daily_pipeline, up to the call of execute(); the job of a
\* team is scheduled with max_instances=1
run_daily_pipeline(p, t) ==
    /\ NextArrival(p)
    /\ \A q \in Procs : ~(proc[q].kind = "sched" /\ proc[q].team = t /\ proc[q].pc # "done")
    /\ proc' = [proc EXCEPT ![p] = [@ EXCEPT !.pc = "create", !.kind = "sched", !.team = t]]
    /\ UNCHANGED <<call, runs, loanExceptions, loanFacts, cancel, fix, inp, hist>>

(* ========================================== PipelineExecutor.execute ==== *)
create_run_record(p) ==
    /\ proc[p].pc = "create"
    /\ runs' = [runs EXCEPT ![p] = NewRunRecord(proc[p].team)]
    /\ proc' = [proc EXCEPT ![p] = [@ EXCEPT !.pc = "update_running", !.created = TRUE]]
    /\ hist' = Wrote(hist, p, runs'[p].status)
    /\ UNCHANGED <<call, loanExceptions, loanFacts, cancel, fix, inp>>

\* pipeline.py 254
update_running(p) ==
    /\ proc[p].pc = "update_running"
    /\ runs' = [runs EXCEPT ![p] = UpdateRunStatus(@, RUNNING, NoKw)]
    /\ proc' = [proc EXCEPT ![p] = [@ EXCEPT !.pc = "set_phase"]]
    /\ hist' = Wrote(hist, p, runs'[p].status)
    /\ UNCHANGED <<call, loanExceptions, loanFacts, cancel, fix, inp>>

\* pipeline.py 255
set_first_phase(p) ==
    /\ proc[p].pc = "set_phase"
    /\ runs' = [runs EXCEPT ![p] = SetPhase(@, Phases[1])]
    /\ proc' = [proc EXCEPT ![p] = [@ EXCEPT !.pc = "stage", !.phase = 1]]
    /\ UNCHANGED <<call, loanExceptions, loanFacts, cancel, fix, inp, hist>>

\* the body of a phase returns, and _set_phase records the next phase
stage_returns(p) ==
    /\ proc[p].pc = "stage"
    /\ proc[p].phase \in InputStages
    /\ runs' = [runs EXCEPT ![p] = SetPhase(@, Phases[proc[p].phase + 1])]
    /\ proc' = [proc EXCEPT ![p] = [@ EXCEPT !.phase = @ + 1]]
    /\ hist' = [hist EXCEPT !.stages[p] = Append(@, proc[p].phase)]
    /\ UNCHANGED <<call, loanExceptions, loanFacts, cancel, fix, inp>>

\* the body of a phase raises on its input (missing file, sheet or column)
stage_raises(p) ==
    /\ proc[p].pc = "stage"
    /\ proc[p].phase \in InputStages
    /\ proc' = [proc EXCEPT ![p] = [@ EXCEPT !.pc = "except", !.exc = "input_error"]]
    /\ hist' = [hist EXCEPT !.stages[p] = Append(@, proc[p].phase),
                            !.inputFault[p] = TRUE]
    /\ UNCHANGED <<call, runs, loanExceptions, loanFacts, cancel, fix, inp>>

\* pipeline.py 357-366: check_comap_sfy is defined with five parameters
\* (rules/comap.py 120-126) and called with six positional arguments, so the
\* call raises TypeError for every input
comap_stage(p) ==
    /\ proc[p].pc = "stage"
    /\ proc[p].phase = ComapPhase
    /\ proc' = [proc EXCEPT ![p] = [@ EXCEPT !.pc = "except", !.exc = "TypeError"]]
    /\ hist' = [hist EXCEPT !.stages[p] = Append(@, proc[p].phase)]
    /\ UNCHANGED <<call, runs, loanExceptions, loanFacts, cancel, fix, inp>>

\* variant: the exception rows are added to the session but never committed
save_exceptions_step_uncommitted(p) ==
    /\ proc[p].pc = "stage"
    /\ proc[p].phase = SaveDbPhase
    /\ proc' = [proc EXCEPT ![p] = [@ EXCEPT !.pc = "save_loan_facts"]]
    /\ hist' = [hist EXCEPT !.stages[p] = Append(@, proc[p].phase)]
    /\ UNCHANGED <<call, runs, loanExceptions, loanFacts, cancel, fix, inp>>

\* variant: the executor re-reads the run before persisting and stops when
\* the run was cancelled
save_exceptions_step_interrupted(p) ==
    /\ proc[p].pc = "stage"
    /\ proc[p].phase = SaveDbPhase
    /\ loanExceptions' =
          IF runs[p].status = CANCELLED
          THEN loanExceptions
          ELSE [loanExceptions EXCEPT ![p] = @ \o save_exceptions(all_exceptions(inp))]
    /\ proc' = IF runs[p].status = CANCELLED
               THEN [proc EXCEPT ![p] = [@ EXCEPT !.pc = "except",
                                                  !.exc = "RunCancelledException"]]
               ELSE [proc EXCEPT ![p] = [@ EXCEPT !.pc = "save_loan_facts"]]
    /\ hist' = [hist EXCEPT !.stages[p] = Append(@, proc[p].phase)]
    /\ UNCHANGED <<call, runs, loanFacts, cancel, fix, inp>>

\* pipeline.py 435
save_exceptions_step(p) ==
    /\ proc[p].pc = "stage"
    /\ proc[p].phase = SaveDbPhase
    /\ loanExceptions' =
          [loanExceptions EXCEPT ![p] = @ \o save_exceptions(all_exceptions(inp))]
    /\ proc' = [proc EXCEPT ![p] = [@ EXCEPT !.pc = "save_loan_facts"]]
    /\ hist' = [hist EXCEPT !.stages[p] = Append(@, proc[p].phase)]
    /\ UNCHANGED <<call, runs, loanFacts, cancel, fix, inp>>

\* pipeline.py 436
save_loan_facts_step(p) ==
    /\ proc[p].pc = "save_loan_facts"
    /\ loanFacts' =
          [loanFacts EXCEPT ![p] =
              @ \o save_loan_facts(FinalDf(inp), rejected_loans(all_exceptions(inp)))]
    /\ proc' = [proc EXCEPT ![p] = [@ EXCEPT !.pc = "update_completed"]]
    /\ UNCHANGED <<call, runs, loanExceptions, cancel, fix, inp, hist>>

\* variant: total_loans counts the submitted rows only
update_completed_buyOnly(p) ==
    /\ proc[p].pc = "update_completed"
    /\ runs' = [runs EXCEPT ![p] =
                  UpdateRunStatus(@, COMPLETED,
                      [total_loans |-> Len(inp.buy),
                       exceptions_count |-> Len(all_exceptions(inp))])]
    /\ proc' = [proc EXCEPT ![p] = [@ EXCEPT !.pc = "archive"]]
    /\ hist' = Wrote(hist, p, runs'[p].status)
    /\ UNCHANGED <<call, loanExceptions, loanFacts, cancel, fix, inp>>

\* pipeline.py 439-444
update_completed(p) ==
    /\ proc[p].pc = "update_completed"
    /\ runs' = [runs EXCEPT ![p] =
                  UpdateRunStatus(@, COMPLETED,
                      [total_loans |-> Len(FinalDf(inp)),
                       exceptions_count |-> Len(all_exceptions(inp))])]
    /\ proc' = [proc EXCEPT ![p] = [@ EXCEPT !.pc = "archive"]]
    /\ hist' = Wrote(hist, p, runs'[p].status)
    /\ UNCHANGED <<call, loanExceptions, loanFacts, cancel, fix, inp>>

\* pipeline.py 446-485: archive_run logs and swallows its errors; execute returns
execute_returns(p) ==
    /\ proc[p].pc = "archive"
    /\ proc' = [proc EXCEPT ![p] = [@ EXCEPT !.pc = "returned", !.result = "completed"]]
    /\ UNCHANGED <<call, runs, loanExceptions, loanFacts, cancel, fix, inp, hist>>

\* pipeline.py 487-490
except_handler(p) ==
    /\ proc[p].pc = "except"
    /\ runs' = IF proc[p].created
               THEN [runs EXCEPT ![p] =
                       UpdateRunStatus(@, FAILED, [errors |-> <<proc[p].exc>>])]
               ELSE runs
    /\ proc' = [proc EXCEPT ![p] = [@ EXCEPT !.pc = "raised"]]
    /\ hist' = IF proc[p].created THEN Wrote(hist, p, runs'[p].status) ELSE hist
    /\ UNCHANGED <<call, loanExceptions, loanFacts, cancel, fix, inp>>

(* ============================================ after execute(), callers == *)
\* routes.py 400-423: the run record is returned (200) or the error is a 500
api_respond(p) ==
    /\ proc[p].kind = "api"
    /\ proc[p].pc \in {"returned", "raised"}
    /\ proc' = [proc EXCEPT ![p] =
                  [@ EXCEPT !.pc = "done",
                            !.resp = IF proc[p].pc = "returned" THEN 200 ELSE 500]]
    /\ UNCHANGED <<call, runs, loanExceptions, loanFacts, cancel, fix, inp, hist>>

\* job_scheduler.py 64-72
sched_completed(p) ==
    /\ proc[p].kind = "sched"
    /\ proc[p].pc = "returned"
    /\ proc' = [proc EXCEPT ![p] = [@ EXCEPT !.pc = "done"]]
    /\ UNCHANGED <<call, runs, loanExceptions, loanFacts, cancel, fix, inp, hist>>

\* job_scheduler.py 74-97: the failure handler marks the run FAILED once more
sched_failure_handler(p) ==
    /\ proc[p].kind = "sched"
    /\ proc[p].pc = "raised"
    /\ runs' = IF runs[p].status # NoRow
               THEN [runs EXCEPT ![p] = [@ EXCEPT !.status = FAILED,
                                                  !.errors = <<proc[p].exc>>]]
               ELSE runs
    /\ proc' = [proc EXCEPT ![p] = [@ EXCEPT !.pc = "done"]]
    /\ UNCHANGED <<call, loanExceptions, loanFacts, cancel, fix, inp, hist>>

(* ================================================= routes.cancel_run ==== *)
\* routes.py 494-503: the run is loaded and its status tested
cancel_run(u, r) ==
    /\ cancel.pc = "idle"
    /\ cancel' =
          IF r \notin filter_by_sales_team({x \in RunIds : runs[x].status # NoRow}, u)
          THEN [IdleCancel EXCEPT !.resp = 404]
          ELSE IF runs[r].status # RUNNING
               THEN [IdleCancel EXCEPT !.resp = 400]
               ELSE [pc |-> "loaded", run |-> r, errs |-> runs[r].errors, resp |-> 0]
    /\ UNCHANGED <<call, runs, loanExceptions, loanFacts, proc, fix, inp, hist>>

\* routes.py 504-512: the loaded object is changed and committed
cancel_commit ==
    /\ cancel.pc = "loaded"
    /\ runs' = [runs EXCEPT ![cancel.run] =
                  [@ EXCEPT !.status = CANCELLED, !.completed_at = TRUE,
                            !.errors = Append(cancel.errs, "Cancelled by user")]]
    /\ cancel' = [IdleCancel EXCEPT !.resp = 200]
    /\ hist' = [hist EXCEPT !.cancelled[cancel.run] = TRUE]
    /\ UNCHANGED <<call, loanExceptions, loanFacts, proc, fix, inp>>

(* =================================== scripts/fix_stuck_runs.run_mark ==== *)
\* fix_stuck_runs.py 94-109: the RUNNING runs are queried, one run (--run-id)
\* or all of them; the script ends when there is none
run_mark_query(sel, mark) ==
    /\ fix.pc = "idle"
    /\ sel # {}
    /\ sel \subseteq RunningRuns
    /\ Cardinality(sel) = 1 \/ sel = RunningRuns
    /\ fix' = [pc |-> "queried", sel |-> sel, mark |-> mark,
               errs |-> [r \in sel |-> runs[r].errors]]
    /\ UNCHANGED <<call, runs, loanExceptions, loanFacts, proc, cancel, inp, hist>>

\* fix_stuck_runs.py 111-123: the loaded objects are changed and committed
run_mark_commit ==
    /\ fix.pc = "queried"
    /\ runs' = [r \in RunIds |->
                  IF r \in fix.sel
                  THEN [runs[r] EXCEPT
                          !.status = IF fix.mark = "failed" THEN FAILED ELSE CANCELLED,
                          !.completed_at = TRUE,
                          !.errors = IF fix.mark = "failed"
                                     THEN Append(fix.errs[r], "Marked by fix_stuck_runs.py")
                                     ELSE @]
                  ELSE runs[r]]
    /\ fix' = IdleFix
    /\ hist' = [hist EXCEPT !.admin = [r \in RunIds |-> @[r] \/ r \in fix.sel]]
    /\ UNCHANGED <<call, loanExceptions, loanFacts, proc, cancel, inp>>

(* ======================================================== the service === *)
\* empty tables, no request in flight
ServiceIdle ==
    /\ runs = [r \in RunIds |-> EmptyRow]
    /\ loanExceptions = [r \in RunIds |-> <<>>]
    /\ loanFacts = [r \in RunIds |-> <<>>]
    /\ proc = [p \in Procs |-> IdleProc]
    /\ cancel = IdleCancel
    /\ fix = IdleFix
    /\ inp = NoInput
    /\ hist = InitHist

Init ==
    /\ ServiceIdle
    /\ call = NoCall

Next ==
    \/ \E p \in Procs, u \in Users : create_pipeline_run(p, u)
    \/ \E p \in Procs, t \in Teams \cup {NoTeam} : run_daily_pipeline(p, t)
    \/ \E p \in Procs : create_run_record(p)
    \/ \E p \in Procs : update_running(p)
    \/ \E p \in Procs : set_first_phase(p)
    \/ \E p \in Procs : stage_returns(p)
    \/ \E p \in Procs : stage_raises(p)
    \/ \E p \in Procs : comap_stage(p)
    \/ \E p \in Procs : except_handler(p)
    \/ \E p \in Procs : api_respond(p)
    \/ \E p \in Procs : sched_failure_handler(p)
    \/ \E u \in Users, r \in RunIds : cancel_run(u, r)
    \/ cancel_commit

Spec == Init /\ [][Next]_vars

(* ------------------------- the service and the administrative script --- *)
NextAdmin ==
    \/ Next
    \/ \E sel \in SUBSET RunIds, mark \in {"failed", "cancelled"} : run_mark_query(sel, mark)
    \/ run_mark_commit

SpecAdmin == Init /\ [][NextAdmin]_vars

(* ---------------------------------------------- the persistence part --- *)
(* execute() from the eligibility phase on (pipeline.py 382-490), for one  *)
(* run request whose rule stages have produced their lists: the request    *)
(* holds a RUNNING run record and the tables of Inputs.  The other         *)
(* sessions are the cancel endpoint's.                                     *)
EligibilityPhase == 6

InitPersist ==
    /\ inp \in Inputs
    /\ \E k \in {"api", "sched"} :
          proc = [p \in Procs |->
                    IF p = 1
                    THEN [IdleProc EXCEPT !.pc = "stage", !.kind = k, !.created = TRUE,
                                          !.user = IF k = "api" THEN "admin" ELSE "none",
                                          !.phase = EligibilityPhase]
                    ELSE IdleProc]
    /\ runs = [r \in RunIds |->
                 IF r = 1
                 THEN SetPhase(UpdateRunStatus(NewRunRecord(NoTeam), RUNNING, NoKw),
                               Phases[EligibilityPhase])
                 ELSE EmptyRow]
    /\ loanExceptions = [r \in RunIds |-> <<>>]
    /\ loanFacts = [r \in RunIds |-> <<>>]
    /\ cancel = IdleCancel
    /\ fix = IdleFix
    /\ hist = [InitHist EXCEPT !.written[1] = <<PENDING, RUNNING>>,
                               !.stages[1] = <<1, 2, 3, 4, 5>>]
    /\ call = NoCall

NextPersist ==
    \/ \E p \in Procs : stage_returns(p)
    \/ \E p \in Procs : stage_raises(p)
    \/ \E p \in Procs : save_exceptions_step(p)
    \/ \E p \in Procs : save_loan_facts_step(p)
    \/ \E p \in Procs : update_completed(p)
    \/ \E p \in Procs : execute_returns(p)
    \/ \E p \in Procs : except_handler(p)
    \/ \E p \in Procs : api_respond(p)
    \/ \E p \in Procs : sched_completed(p)
    \/ \E p \in Procs : sched_failure_handler(p)
    \/ \E u \in Users, r \in RunIds : cancel_run(u, r)
    \/ cancel_commit

SpecPersist == InitPersist /\ [][NextPersist]_vars

(* ----------------- the persistence part and the administrative script --- *)
NextPersistAdmin ==
    \/ NextPersist
    \/ \E sel \in SUBSET RunIds, mark \in {"failed", "cancelled"} : run_mark_query(sel, mark)
    \/ run_mark_commit

SpecPersistAdmin == InitPersist /\ [][NextPersistAdmin]_vars

(* =============================================== rules/purchase_price.py *)
(* check_purchase_price on one row.  Prices are fixed-point: Lender        *)
(* Price(%) and modeled_purchase_price * 100 are both counted in           *)
(* thousandths of a percent, PriceBase - MaxMilli .. PriceBase + MaxMilli. *)
MaxMilli == 6
PriceBase == 99000     \* 99.000 %

Prices == (PriceBase - MaxMilli) .. (PriceBase + MaxMilli)

\* round(x, 2) of a float Series: the nearest hundredth; on a tie the binary
\* value of the float decides, so either neighbour can result
Round2(x) ==
    LET lo == x - (x % 10)
    IN  IF x % 10 < 5 THEN {lo}
        ELSE IF x % 10 > 5 THEN {lo + 10}
        ELSE {lo, lo + 10}

InitPrice ==
    /\ ServiceIdle
    /\ \E l \in Prices, m \in Prices, c \in BOOLEAN :
          call = [pc |-> "price_input", columns |-> c, lender |-> l, modeled |-> m,
                  rounded |-> 0, purchase_price_check |-> FALSE]

\* variant: the lender percentage is rounded as well
check_purchase_price_roundsBoth ==
    /\ call.pc = "price_input"
    /\ \E r \in Round2(call.modeled), rl \in Round2(call.lender) :
          call' = [call EXCEPT !.pc = "price_done", !.rounded = r,
                               !.purchase_price_check = call.columns /\ rl = r]
    /\ UNCHANGED <<runs, loanExceptions, loanFacts, proc, cancel, fix, inp, hist>>

\* purchase_price.py 6-17
check_purchase_price ==
    /\ call.pc = "price_input"
    /\ \E r \in Round2(call.modeled) :
          call' = [call EXCEPT !.pc = "price_done", !.rounded = r,
                               !.purchase_price_check = call.columns /\ call.lender = r]
    /\ UNCHANGED <<runs, loanExceptions, loanFacts, proc, cancel, fix, inp, hist>>

NextPrice == check_purchase_price

SpecPrice == InitPrice /\ [][NextPrice]_vars

(* ================================================= rules/underwriting.py *)
(* check_underwriting on a buy_df of one loan and a grid of up to          *)
(* MaxRules rows.  mth_income is Income / 12, dti is DTI * 100, balance is *)
(* Orig. Balance - Stamp fee, as lines 38-42 compute them.                 *)
MaxRules == 2

UwLoans ==
    [id : {1}, app_type : {"STANDARD", "HD NOTE"}, prog : {"P"}, mth_income : {1},
     fico : {700, 701}, dti : {1}, pti : {1}, balance : {1}]

UwRules ==
    [finance_type_name_nls : {"P", "Q"}, monthly_income_min : {1, 2},
     fico_min : {700, 702}, approval_high : {0, 1}, dti_max : {0, 1},
     pti_ratio : {0, 1}]

\* the grids of at most MaxRules rows
UwGrids ==
    {{f[i] : i \in DOMAIN f} : f \in UNION {[1 .. n -> UwRules] : n \in 0 .. MaxRules}}

\* sort_values('approval_high'): the rows in ascending order of approval_high
RECURSIVE SortByApproval(_)
SortByApproval(g) ==
    IF g = {} THEN <<>>
    ELSE LET r == CHOOSE x \in g : \A y \in g : x.approval_high <= y.approval_high
         IN  <<r>> \o SortByApproval(g \ {r})

\* underwriting.py 45-49: the rows of the full-criteria filter
FilterFull(g, row) ==
    {u \in g : /\ u.finance_type_name_nls = row.prog
               /\ u.monthly_income_min <= row.mth_income
               /\ u.fico_min <= row.fico}

\* underwriting.py 61-64: the rows of the filter without the income minimum
FilterRelaxed(g, row) ==
    {u \in g : u.finance_type_name_nls = row.prog /\ u.fico_min <= row.fico}

\* underwriting.py 54-57 and 66-70: the loop over the sorted rows, left at the
\* first row the loan meets
RECURSIVE MeetsSome(_, _, _)
MeetsSome(rows, row, with_pti) ==
    IF rows = <<>> THEN FALSE
    ELSE LET rule == Head(rows)
         IN  IF /\ row.balance <= rule.approval_high
                /\ row.dti <= rule.dti_max
                /\ (with_pti => row.pti <= rule.pti_ratio)
             THEN TRUE
             ELSE MeetsSome(Tail(rows), row, with_pti)

\* the rows check_underwriting looks at (lines 20-30)
UwChecked(buy_df, is_notes, tuloans) ==
    LET Keep(row) == /\ (row.app_type = "HD NOTE") = is_notes
                     /\ row.id \notin tuloans
    IN  SelectSeq(buy_df, Keep)

\* variant: the second pass appends to min_income_loans but the loan stays flagged
UwRow_keepsFlag(row, g) ==
    LET full == MeetsSome(SortByApproval(FilterFull(g, row)), row, FALSE)
        relaxed == /\ ~full
                   /\ row.fico > 700
                   /\ MeetsSome(SortByApproval(FilterRelaxed(g, row)), row, TRUE)
    IN  [flagged |-> ~full, min_income |-> relaxed]

\* underwriting.py 32-73: the body of the loop for one row
UwRow(row, g) ==
    LET full == MeetsSome(SortByApproval(FilterFull(g, row)), row, FALSE)
        relaxed == /\ ~full
                   /\ row.fico > 700
                   /\ MeetsSome(SortByApproval(FilterRelaxed(g, row)), row, TRUE)
    IN  [flagged |-> ~(full \/ relaxed), min_income |-> relaxed]

\* underwriting.py 6-75: (flagged_loans, min_income_loans)
check_underwriting(buy_df, g, is_notes, tuloans) ==
    LET chk == UwChecked(buy_df, is_notes, tuloans)
        Flag(row) == UwRow(row, g).flagged
        Soft(row) == UwRow(row, g).min_income
        Id(row) == row.id
    IN  [flagged_loans |-> MapRows(SelectSeq(chk, Flag), Id),
         min_income_loans |-> MapRows(SelectSeq(chk, Soft), Id)]

InitUnderwriting ==
    /\ ServiceIdle
    /\ \E row \in UwLoans, g \in UwGrids, n \in BOOLEAN, tu \in SUBSET {1} :
          call = [pc |-> "uw_input", buy_df |-> <<row>>, grid |-> g, is_notes |-> n,
                  tuloans |-> tu, flagged_loans |-> <<>>, min_income_loans |-> <<>>]

check_underwriting_call ==
    /\ call.pc = "uw_input"
    /\ LET res == check_underwriting(call.buy_df, call.grid, call.is_notes, call.tuloans)
       IN  call' = [call EXCEPT !.pc = "uw_done",
                                !.flagged_loans = res.flagged_loans,
                                !.min_income_loans = res.min_income_loans]
    /\ UNCHANGED <<runs, loanExceptions, loanFacts, proc, cancel, fix, inp, hist>>

NextUnderwriting == check_underwriting_call

SpecUnderwriting == InitUnderwriting /\ [][NextUnderwriting]_vars

(* ======================================================== rules/comap.py *)
PRIME_COMAP_COLS_MIN_FICO ==
    ("660-699" :> 660) @@ ("700-739" :> 700) @@ ("740-749" :> 740)
    @@ ("750-769" :> 750) @@ ("770+" :> 770)

PRIME_COMAP_COLS_MIN_FICO2 ==
    ("660-699" :> 660) @@ ("700-739" :> 700) @@ ("740-749" :> 740) @@ ("750+" :> 750)

SFY_COMAP_COLS_MIN_FICO ==
    ("660-719" :> 660) @@ ("720-779" :> 720) @@ ("780-799" :> 780) @@ ("800+" :> 800)

SFY_COMAP_COLS_MIN_FICO2 ==
    ("660-699" :> 660) @@ ("700-739" :> 700) @@ ("740-749" :> 740)
    @@ ("750-769" :> 750) @@ ("770+" :> 770)

SFY_COMAP_COLS_MIN_FICO3 ==
    ("660-719" :> 660) @@ ("720-779" :> 720) @@ ("780+" :> 780)

NOTES_COMAP_COLS_MIN_FICO ==
    ("680-749" :> 680) @@ ("750-769" :> 750) @@ ("770-789" :> 770) @@ ("790+" :> 790)

\* dates are written yyyymmdd; NaT is a missing Submit Date
oct25_cutoff == 20251024
prime_new_cutoff == 20200611
NaT == 0

MaxComapLoans == 2

ComapLoans ==
    [id : {0}, app_type : {"STANDARD", "HD NOTE"}, pp : BOOLEAN,
     platform : {"prime", "sfy"}, prog : {"P"}, fico : {700, 760},
     submit : {NaT, 20200611, 20251024, 20251025}]

ComapBuyDfs ==
    {WithIds(t) : t \in UNION {[1 .. n -> ComapLoans] : n \in 0 .. MaxComapLoans}}

\* a sheet of Underwriting_Grids_COMAP.xlsx: its FICO-band columns and the
\* programs listed in each
SheetsOver(cols) == UNION {[c -> SUBSET {"P"}] : c \in SUBSET cols}

PrimeSheets == SheetsOver({"740-749", "750-769", "750+"})
SfySheets == SheetsOver({"720-779", "780+"})
Sfy2Sheets == SheetsOver({"740-749"})
NotesSheets == SheetsOver({"750-769", "790+"})

\* pipeline.py 79-86: the sheet each CoMAP entry of ref_data is read from
ComapSheetOf ==
    ("sfy_comap" :> "SFY COMAP") @@ ("sfy_comap2" :> "SFY COMAP2")
    @@ ("prime_comap" :> "Prime CoMAP") @@ ("sfy_comap_oct25" :> "SFY COMAP")
    @@ ("sfy_comap_oct25_2" :> "SFY COMAP2") @@ ("prime_comap_oct25" :> "Prime CoMAP")
    @@ ("notes_comap" :> "Notes CoMAP")

\* load_reference_data on a workbook wb (sheet name -> sheet): each entry keeps
\* the name of the sheet it was read from
load_reference_data(wb) ==
    [k \in {x \in DOMAIN ComapSheetOf : ComapSheetOf[x] \in DOMAIN wb} |->
        [sheet |-> ComapSheetOf[k], columns |-> wb[ComapSheetOf[k]]]]

\* the argument pipeline.py 359 passes as prime_comap_new
Timestamp == [sheet |-> "Timestamp"]

\* `available_cols and prog in grid[available_cols].stack().unique()`
ProgInStack(grid, cols, prog) ==
    \E c \in cols \cap DOMAIN grid.columns : prog \in grid.columns[c]

\* the loop over the available columns, left at the first band that admits
FoundInBands(grid, cols, table, prog, fico) ==
    \E c \in cols \cap DOMAIN grid.columns :
        prog \in grid.columns[c] /\ fico >= table[c]

IsAfter(submit_dt, cutoff) == submit_dt # NaT /\ submit_dt > cutoff

\* comap.py 75-112: one row of check_comap_prime
ComapPrimeRow(row, prime_comap, prime_comap_oct25, prime_comap_oct25_2, prime_comap_new) ==
    IF IsAfter(row.submit, oct25_cutoff)
    THEN LET f1 == /\ ProgInStack(prime_comap_oct25, DOMAIN PRIME_COMAP_COLS_MIN_FICO2, row.prog)
                   /\ FoundInBands(prime_comap_oct25, DOMAIN PRIME_COMAP_COLS_MIN_FICO2,
                                   PRIME_COMAP_COLS_MIN_FICO2, row.prog, row.fico)
             f2 == /\ ProgInStack(prime_comap_oct25_2, DOMAIN PRIME_COMAP_COLS_MIN_FICO, row.prog)
                   /\ FoundInBands(prime_comap_oct25_2, DOMAIN PRIME_COMAP_COLS_MIN_FICO,
                                   PRIME_COMAP_COLS_MIN_FICO, row.prog, row.fico)
         IN  [found |-> f1 \/ f2, raised |-> FALSE,
              consulted |-> IF f1 THEN {prime_comap_oct25.sheet}
                            ELSE {prime_comap_oct25.sheet, prime_comap_oct25_2.sheet}]
    ELSE IF IsAfter(row.submit, prime_new_cutoff)
    THEN IF prime_comap_new = Timestamp
         THEN [found |-> FALSE, raised |-> TRUE, consulted |-> {}]
         ELSE [found |-> FoundInBands(prime_comap_new, DOMAIN PRIME_COMAP_COLS_MIN_FICO,
                                      PRIME_COMAP_COLS_MIN_FICO, row.prog, row.fico),
               raised |-> FALSE, consulted |-> {prime_comap_new.sheet}]
    ELSE [found |-> FoundInBands(prime_comap, DOMAIN PRIME_COMAP_COLS_MIN_FICO,
                                 PRIME_COMAP_COLS_MIN_FICO, row.prog, row.fico),
          raised |-> FALSE, consulted |-> {prime_comap.sheet}]

\* comap.py 140-180: one row of check_comap_sfy
ComapSfyRow(row, sfy_comap, sfy_comap2, sfy_comap_oct25, sfy_comap_oct25_2) ==
    LET Two(g1, t1, g2, t2) ==
            LET f1 == /\ ProgInStack(g1, DOMAIN t1, row.prog)
                      /\ FoundInBands(g1, DOMAIN t1, t1, row.prog, row.fico)
                f2 == /\ ProgInStack(g2, DOMAIN t2, row.prog)
                      /\ FoundInBands(g2, DOMAIN t2, t2, row.prog, row.fico)
            IN  [found |-> f1 \/ f2, raised |-> FALSE,
                 consulted |-> IF f1 THEN {g1.sheet} ELSE {g1.sheet, g2.sheet}]
    IN  IF IsAfter(row.submit, oct25_cutoff)
        THEN Two(sfy_comap_oct25, SFY_COMAP_COLS_MIN_FICO3,
                 sfy_comap_oct25_2, SFY_COMAP_COLS_MIN_FICO2)
        ELSE Two(sfy_comap, SFY_COMAP_COLS_MIN_FICO, sfy_comap2, SFY_COMAP_COLS_MIN_FICO2)

\* comap.py 200-221: one row of check_comap_notes; the two `continue` leave
\* the row out of the result
ComapNotesRow(row, notes_comap) ==
    IF ~ProgInStack(notes_comap, DOMAIN NOTES_COMAP_COLS_MIN_FICO, row.prog)
    THEN [skipped |-> TRUE, found |-> FALSE, raised |-> FALSE,
          consulted |-> {notes_comap.sheet}]
    ELSE [skipped |-> FALSE,
          found |-> FoundInBands(notes_comap, DOMAIN NOTES_COMAP_COLS_MIN_FICO,
                                 NOTES_COMAP_COLS_MIN_FICO, row.prog, row.fico),
          raised |-> FALSE, consulted |-> {notes_comap.sheet}]

\* the rows each function checks (comap.py 66-70, 131-135, 194-197)
ComapChecked(buy_df, channel) ==
    LET Keep(row) ==
            /\ row.pp
            /\ IF channel = "NOTES" THEN row.app_type = "HD NOTE"
               ELSE /\ row.app_type # "HD NOTE"
                    /\ row.platform = (IF channel = "PRIME" THEN "prime" ELSE "sfy")
    IN  SelectSeq(buy_df, Keep)

\* check_comap_*: the list of (SELLER Loan #, prog, channel) of the checked
\* rows that are not found, and for each row of buy_df the sheets it was
\* looked up in; an exception raised on a row ends the call
ComapResult(buy_df, channel, RowRes(_)) ==
    LET chk == ComapChecked(buy_df, channel)
        Missing(row) == ~RowRes(row).found /\ ~RowRes(row).skipped
        Tuple(row) == [id |-> row.id, prog |-> row.prog, kind |-> channel]
    IN  [raised |-> \E i \in 1 .. Len(chk) : RowRes(chk[i]).raised,
         loan_not_in_comap |-> MapRows(SelectSeq(chk, Missing), Tuple),
         consulted |-> [i \in 1 .. Len(buy_df) |->
                          IF \E k \in 1 .. Len(chk) : chk[k] = buy_df[i]
                          THEN RowRes(buy_df[i]).consulted ELSE {}]]

\* comap.py 54-117, with the arguments of pipeline.py 357-360
check_comap_prime(buy_df, ref_data) ==
    LET R(row) == ComapPrimeRow(row, ref_data.prime_comap, ref_data.prime_comap_oct25,
                                ref_data.prime_comap_oct25, Timestamp)
                  @@ [skipped |-> FALSE]
    IN  ComapResult(buy_df, "PRIME", R)

\* comap.py 120-184, with the four grids of pipeline.py 362-363
check_comap_sfy(buy_df, ref_data) ==
    LET R(row) == ComapSfyRow(row, ref_data.sfy_comap, ref_data.sfy_comap2,
                              ref_data.sfy_comap_oct25, ref_data.sfy_comap_oct25_2)
                  @@ [skipped |-> FALSE]
    IN  ComapResult(buy_df, "SFY", R)

\* comap.py 187-223, with the argument of pipeline.py 366
check_comap_notes(buy_df, ref_data) ==
    LET R(row) == ComapNotesRow(row, ref_data.notes_comap)
    IN  ComapResult(buy_df, "NOTES", R)

ComapInput(channel, buy_df, ref_data) ==
    [pc |-> "comap_input", channel |-> channel, buy_df |-> buy_df,
     ref_data |-> ref_data, loan_not_in_comap |-> <<>>, consulted |-> <<>>,
     exceptions |-> <<>>]

InitComap ==
    /\ ServiceIdle
    /\ \E df \in ComapBuyDfs :
          \/ \E s \in PrimeSheets :
                call = ComapInput("PRIME", df, load_reference_data("Prime CoMAP" :> s))
          \/ \E s \in SfySheets, s2 \in Sfy2Sheets :
                call = ComapInput("SFY", df,
                          load_reference_data(("SFY COMAP" :> s) @@ ("SFY COMAP2" :> s2)))
          \/ \E s \in NotesSheets :
                call = ComapInput("NOTES", df, load_reference_data("Notes CoMAP" :> s))

\* the call of one check function, and pipeline.py 369-380 on its result
ComapCall(res) ==
    /\ call.pc = "comap_input"
    /\ call' = IF res.raised
               THEN [call EXCEPT !.pc = "comap_raised"]
               ELSE [call EXCEPT !.pc = "comap_done",
                                 !.loan_not_in_comap = res.loan_not_in_comap,
                                 !.consulted = res.consulted,
                                 !.exceptions = comap_exceptions(res.loan_not_in_comap)]
    /\ UNCHANGED <<runs, loanExceptions, loanFacts, proc, cancel, fix, inp, hist>>

check_comap_prime_call ==
    call.channel = "PRIME" /\ ComapCall(check_comap_prime(call.buy_df, call.ref_data))

check_comap_sfy_call ==
    call.channel = "SFY" /\ ComapCall(check_comap_sfy(call.buy_df, call.ref_data))

check_comap_notes_call ==
    call.channel = "NOTES" /\ ComapCall(check_comap_notes(call.buy_df, call.ref_data))

NextComap ==
    \/ check_comap_prime_call
    \/ check_comap_sfy_call
    \/ check_comap_notes_call

SpecComap == InitComap /\ [][NextComap]_vars

(* ------------------------------------------------ rules/eligibility.py *)
\* The portfolio checks are functions of final_df_all (and buy_df).  Balances
\* are whole dollars, Lender Price(%) and APR are hundredths, Dealer Fee is
\* hundredths (the fraction left by enrich_buy_df).  A value is the quotient
\* n / d of two exact numbers; d = 0 is the nan that numpy returns for 0 / 0.
MaxEligLoans == 2

\* the rows of final_df_all: the columns the checks read
EligLoans ==
    [platform : {"prime", "sfy"}, Repurchase : BOOLEAN, Term : {120, 180},
     type : {"standard", "standard_bd"}, fico : {690, 720},
     balance : {3, 4, 96, 97}, lender : {9900}, dealer_fee : {5},
     state : {"CA"}, apr : {699}, promo_term : {12}, prog : {"P"},
     purchase_price : {1}, excess_asset : {FALSE}, new_programs : {FALSE}]

EligDfs == UNION {[1 .. n -> EligLoans] : n \in 0 .. MaxEligLoans}

Ratio(n, d) == [n |-> n, d |-> d]

\* Series.sum()
RECURSIVE SumSeq(_)
SumSeq(s) == IF s = << >> THEN 0 ELSE Head(s) + SumSeq(Tail(s))

\* df[mask]['Orig. Balance'].sum()
BalWhere(df, mask) ==
    SumSeq([i \in DOMAIN df |-> IF mask[i] THEN df[i].balance ELSE 0])

\* df[mask].shape[0]
CountWhere(df, mask) ==
    SumSeq([i \in DOMAIN df |-> IF mask[i] THEN 1 ELSE 0])

\* Series.max()
MaxOf(S) == CHOOSE x \in S : \A y \in S : y <= x

\* float comparisons of a value with the literal a / b; all false for nan
Lt(v, a, b) == v.d # 0 /\ v.n * b < a * v.d
Le(v, a, b) == v.d # 0 /\ v.n * b <= a * v.d
Gt(v, a, b) == v.d # 0 /\ v.n * b > a * v.d
Ge(v, a, b) == v.d # 0 /\ v.n * b >= a * v.d

\* final_df_all[final_df_all['platform'] == p]
OfPlatform(df, p) == SelectSeq(df, LAMBDA r : r.platform = p)

\* pd.pivot_table(df, values='Orig. Balance', aggfunc='sum',
\*                columns='Property State') / total_balance, as a dict
state_distribution(df, total_balance) ==
    [s \in {df[i].state : i \in DOMAIN df} |->
        Ratio(BalWhere(df, [i \in DOMAIN df |-> df[i].state = s]),
              total_balance)]

Check(v, p) == [value |-> v, pass |-> p]

\* variant: an informational check held to a threshold like its neighbours
Informational_thresholded(v) ==
    Check(v, "n" \in DOMAIN v /\ Le(v, 1, 100))

\* eligibility.py 107, 118, 273, 291-293, 301: 'pass': True  # Informational
Informational(v) == Check(v, TRUE)

\* variant: check_b1 held to check_a's 5%
check_b1_pass_fivePercent(check_b1) == Lt(check_b1, 5, 100)

\* eligibility.py 44: 'pass': check_b1 < 0.03
check_b1_pass(check_b1) == Lt(check_b1, 3, 100)

\* variant: a zero entry instead of no entry for an empty population
EligGuard_zeros(total_balance, results) ==
    IF total_balance = 0
    THEN [check_a |-> Check(Ratio(0, 1), TRUE)] ELSE results

\* eligibility.py 25-26, 156-157: if total_balance == 0: return results
EligGuard(total_balance, results) ==
    IF total_balance = 0 THEN << >> ELSE results

\* eligibility.py 7-131
check_eligibility_prime(final_df_all) ==
    LET prime_df == OfPlatform(final_df_all, "prime")
        D == DOMAIN prime_df
        total_balance == SumSeq([i \in D |-> prime_df[i].balance])
        Share(mask) == Ratio(BalWhere(prime_df, mask), total_balance)
        check_a == Share([i \in D |->
            /\ ~prime_df[i].Repurchase /\ prime_df[i].Term <= 144
            /\ prime_df[i].type = "standard" /\ prime_df[i].fico < 700])
        check_b1 == Share([i \in D |->
            /\ ~prime_df[i].Repurchase /\ prime_df[i].Term > 144
            /\ prime_df[i].type = "standard" /\ prime_df[i].fico < 700])
        check_b3 == Ratio(CountWhere(prime_df, [i \in D |->
            /\ prime_df[i].Term > 144 /\ prime_df[i].type = "standard"
            /\ prime_df[i].fico < 700]), Len(prime_df))
        check_c == Share([i \in D |->
            /\ prime_df[i].Term > 144 /\ prime_df[i].type = "standard"
            /\ prime_df[i].fico >= 700])
        check_d == Share([i \in D |-> prime_df[i].type = "hybrid"])
        check_e == Share([i \in D |-> prime_df[i].type = "ninp"])
        check_f == Share([i \in D |-> prime_df[i].type = "epni"])
        check_g == Share([i \in D |-> prime_df[i].type = "wpdi"])
        check_h1 == Ratio(MaxOf({prime_df[i].lender : i \in D}), 100)
        check_h2 == Share([i \in D |->
            prime_df[i].lender > 10000 /\ prime_df[i].lender <= 10300])
        check_h3 == Ratio(SumSeq([i \in D |->
            prime_df[i].dealer_fee * prime_df[i].balance]), 100 * total_balance)
        check_i1 == Share([i \in D |-> prime_df[i].balance > 50000])
        check_i2 == Ratio(total_balance, Len(prime_df))
        check_l1 == Share([i \in D |-> prime_df[i].fico < 680])
        check_l2 == Share([i \in D |-> prime_df[i].fico < 700])
        check_l3 == Ratio(SumSeq([i \in D |->
            prime_df[i].balance * prime_df[i].fico]), total_balance)
        check_l4 == Ratio(SumSeq([i \in D |-> prime_df[i].fico]), Len(prime_df))
        non_repurchase_prime == SelectSeq(prime_df, LAMBDA r : ~r.Repurchase)
        non_repurchase_total ==
            SumSeq([i \in DOMAIN non_repurchase_prime |->
                        non_repurchase_prime[i].balance])
        check_s1 ==
            IF non_repurchase_total > 0
            THEN Ratio(BalWhere(non_repurchase_prime,
                     [i \in DOMAIN non_repurchase_prime |->
                         non_repurchase_prime[i].new_programs]),
                     non_repurchase_total)
            ELSE Ratio(0, 1)
    IN  EligGuard(total_balance,
             [check_a |-> Check(check_a, Lt(check_a, 5, 100)),
              check_b1 |-> Check(check_b1, check_b1_pass(check_b1)),
              check_b3 |-> Check(check_b3, Lt(check_b3, 3, 100)),
              check_c |-> Check(check_c, Lt(check_c, 35, 100)),
              check_d |-> Check(check_d, Lt(check_d, 35, 100)),
              check_e |-> Check(check_e, Lt(check_e, 15, 100)),
              check_f |-> Check(check_f, Lt(check_f, 18, 100)),
              check_g |-> Check(check_g, Lt(check_g, 15, 100)),
              check_h1 |-> Check(check_h1, Le(check_h1, 102, 1)),
              check_h2 |-> Check(check_h2, Lt(check_h2, 35, 100)),
              check_h3 |-> Check(check_h3, Lt(check_h3, 15, 100)),
              check_i1 |-> Check(check_i1, Lt(check_i1, 38, 100)),
              check_i2 |-> Check(check_i2, Lt(check_i2, 20000, 1)),
              check_j_state_dist |->
                  Informational(state_distribution(prime_df, total_balance)),
              check_l1 |-> Check(check_l1, Lt(check_l1, 5, 10)),
              check_l2 |-> Check(check_l2, Lt(check_l2, 7, 10)),
              check_l3 |-> Check(check_l3, Gt(check_l3, 700, 1)),
              check_l4 |-> Informational(check_l4),
              check_s1 |->
                  IF Len(non_repurchase_prime) > 0
                  THEN Check(check_s1, Lt(check_s1, 2, 100))
                  ELSE Check(Ratio(0, 1), TRUE)])

\* eligibility.py 134-299
check_eligibility_sfy(final_df_all, buy_df) ==
    LET sfy_df == OfPlatform(final_df_all, "sfy")
        D == DOMAIN sfy_df
        A == DOMAIN final_df_all
        total_balance == SumSeq([i \in D |-> sfy_df[i].balance])
        Share(mask) == Ratio(BalWhere(sfy_df, mask), total_balance)
        wpdi_any(r) == r.type \in {"wpdi", "wpdi_bd"}
        standard_any(r) == r.type \in {"standard", "standard_bd"}
        premium(r) == r.lender > 10000 /\ r.lender <= 10300
        check_a1 == Share([i \in D |-> sfy_df[i].type = "hybrid"])
        check_a2 == Share([i \in D |->
            sfy_df[i].type = "hybrid" /\ sfy_df[i].apr < 700])
        check_b1 == Share([i \in D |-> sfy_df[i].type = "ninp"])
        check_b2 == Share([i \in D |->
            sfy_df[i].type = "ninp" /\ sfy_df[i].promo_term > 6])
        check_b3 == Share([i \in D |->
            sfy_df[i].type = "ninp" /\ sfy_df[i].promo_term > 12])
        check_b4 == Share([i \in D |->
            sfy_df[i].type = "ninp" /\ sfy_df[i].Term > 84])
        check_c1 == Share([i \in D |-> sfy_df[i].type = "epni"])
        check_d1 == Share([i \in D |-> sfy_df[i].type = "wpdi"])
        check_d2 == Share([i \in D |-> wpdi_any(sfy_df[i])])
        check_d3 == Share([i \in D |->
            sfy_df[i].type = "wpdi" /\ sfy_df[i].promo_term >= 12])
        check_d4 == Share([i \in D |->
            wpdi_any(sfy_df[i]) /\ sfy_df[i].promo_term >= 12])
        check_e1 == Share([i \in D |->
            sfy_df[i].type = "standard" /\ sfy_df[i].Term > 120])
        check_e2 == Share([i \in D |->
            standard_any(sfy_df[i]) /\ sfy_df[i].Term > 120])
        check_e3 == Share([i \in D |->
            sfy_df[i].type = "standard" /\ sfy_df[i].Term > 144])
        check_e4 == Share([i \in D |->
            standard_any(sfy_df[i]) /\ sfy_df[i].Term > 144])
        check_f1 == Ratio(MaxOf({sfy_df[i].lender : i \in D}), 100)
        check_f2 == Share([i \in D |-> premium(sfy_df[i])])
        check_f3 == Share([i \in D |->
            premium(sfy_df[i]) /\ sfy_df[i].prog # "Unsec Std - 999 - 120"])
        check_f4 == Ratio(SumSeq([i \in D |->
            sfy_df[i].dealer_fee * sfy_df[i].balance]), 100 * total_balance)
        check_g1 == Share([i \in D |-> sfy_df[i].balance > 50000])
        check_g2 == Ratio(total_balance, Len(sfy_df))
        check_j1 == Share([i \in D |-> sfy_df[i].fico < 680])
        check_j2 == Share([i \in D |-> sfy_df[i].fico < 700])
        check_j3 == Ratio(SumSeq([i \in D |->
            sfy_df[i].balance * sfy_df[i].fico]), total_balance)
        check_j4 == Ratio(SumSeq([i \in D |-> sfy_df[i].fico]), Len(sfy_df))
        check_l1 == Share([i \in D |-> sfy_df[i].type = "wpdi_bd"])
        check_l2 == Share([i \in D |-> sfy_df[i].type = "standard_bd"])
        all_price == SumSeq([i \in A |-> final_df_all[i].purchase_price])
        bd(r) == r.type \in {"standard_bd", "wpdi_bd"}
        check_l3 == Ratio(SumSeq([i \in A |->
            IF bd(final_df_all[i])
            THEN final_df_all[i].purchase_price ELSE 0]), all_price)
        check_l4 == Ratio(SumSeq([i \in A |->
            IF bd(final_df_all[i]) /\ ~final_df_all[i].excess_asset
            THEN final_df_all[i].purchase_price ELSE 0]), all_price)
        buy_sfy == OfPlatform(buy_df, "sfy")
        buy_total == SumSeq([i \in DOMAIN buy_sfy |-> buy_sfy[i].balance])
        check_l5 == Ratio(BalWhere(buy_sfy, [i \in DOMAIN buy_sfy |->
            buy_sfy[i].type = "standard_bd"]), buy_total)
        non_repurchase == [i \in A |->
            ~final_df_all[i].Repurchase /\ final_df_all[i].platform = "sfy"]
        check_s1 ==
            IF CountWhere(final_df_all, non_repurchase) > 0
            THEN Ratio(BalWhere(final_df_all, [i \in A |->
                     final_df_all[i].new_programs /\ non_repurchase[i]]),
                     BalWhere(final_df_all, non_repurchase))
            ELSE Ratio(0, 1)
        results ==
             [check_a1 |-> Check(check_a1, Lt(check_a1, 85, 100)),
              check_a2 |-> Check(check_a2, Lt(check_a2, 25, 100)),
              check_b1 |-> Check(check_b1, Lt(check_b1, 30, 100)),
              check_b2 |-> Check(check_b2, Lt(check_b2, 27, 100)),
              check_b3 |-> Check(check_b3, Lt(check_b3, 15, 100)),
              check_b4 |-> Check(check_b4, Le(check_b4, 0, 1)),
              check_c1 |-> Check(check_c1, Le(check_c1, 25, 100)),
              check_d1 |-> Check(check_d1, Le(check_d1, 17, 100)),
              check_d2 |-> Check(check_d2, Le(check_d2, 17, 100)),
              check_d3 |-> Check(check_d3, Le(check_d3, 9, 100)),
              check_d4 |-> Check(check_d4, Le(check_d4, 9, 100)),
              check_e1 |-> Check(check_e1, Le(check_e1, 30, 100)),
              check_e2 |-> Check(check_e2, Le(check_e2, 30, 100)),
              check_e3 |-> Check(check_e3, Le(check_e3, 28, 100)),
              check_e4 |-> Check(check_e4, Le(check_e4, 28, 100)),
              check_f1 |-> Check(check_f1, Le(check_f1, 10125, 100)),
              check_f2 |-> Check(check_f2, Le(check_f2, 40, 100)),
              check_f3 |-> Check(check_f3, Le(check_f3, 37, 100)),
              check_f4 |-> Check(check_f4, Le(check_f4, 15, 100)),
              check_g1 |-> Check(check_g1, Le(check_g1, 38, 100)),
              check_g2 |-> Check(check_g2, Le(check_g2, 20000, 1)),
              check_j1 |-> Check(check_j1, Le(check_j1, 5, 10)),
              check_j2 |-> Check(check_j2, Le(check_j2, 7, 10)),
              check_j3 |-> Check(check_j3, Ge(check_j3, 700, 1)),
              check_j4 |-> Check(check_j4, Ge(check_j4, 700, 1)),
              check_h_state_dist |->
                  Informational(state_distribution(sfy_df, total_balance)),
              check_l1 |-> Check(check_l1, Le(check_l1, 1, 100)),
              check_l2 |-> Informational(check_l2),
              check_l3 |-> Informational(check_l3),
              check_l4 |-> Informational(check_l4),
              check_s1 |-> Check(check_s1, Lt(check_s1, 2, 100))]
    IN  EligGuard(total_balance,
             IF Len(buy_sfy) > 0
             THEN results @@ [check_l5 |-> Informational(check_l5)]
             ELSE results)

(* ------------------------------------- outputs/eligibility_reports.py *)
\* eligibility_reports.py 129: None, for a check the table does not list
NoThreshold == [op |-> "None"]

\* eligibility_reports.py 78-129: the threshold shown for a check, '< 3%'
\* as the comparison and the number it names
get_threshold(check_name, platform) ==
    LET T(op, n, d) == [op |-> op, n |-> n, d |-> d]
        thresholds ==
          [prime |->
             [check_a |-> T("<", 5, 100), check_b1 |-> T("<", 3, 100),
              check_b3 |-> T("<", 3, 100), check_c |-> T("<", 35, 100),
              check_d |-> T("<", 35, 100), check_e |-> T("<", 15, 100),
              check_f |-> T("<", 18, 100), check_g |-> T("<", 15, 100),
              check_h1 |-> T("<", 10187, 100), check_h2 |-> T("<", 35, 100),
              check_h3 |-> T("<", 15, 100), check_i1 |-> T("<", 38, 100),
              check_i2 |-> T("<", 20000, 1), check_l1 |-> T("<", 50, 100),
              check_l2 |-> T("<", 70, 100), check_l3 |-> T(">", 700, 1),
              check_s1 |-> T("<", 2, 100)],
           sfy |->
             [check_a1 |-> T("<", 85, 100), check_a2 |-> T("<", 25, 100),
              check_b1 |-> T("<", 30, 100), check_b2 |-> T("<", 27, 100),
              check_b3 |-> T("<", 15, 100), check_b4 |-> T("<=", 0, 100),
              check_c1 |-> T("<=", 25, 100), check_d1 |-> T("<=", 17, 100),
              check_d2 |-> T("<=", 17, 100), check_d3 |-> T("<=", 9, 100),
              check_d4 |-> T("<=", 9, 100), check_e1 |-> T("<=", 30, 100),
              check_e2 |-> T("<=", 30, 100), check_e3 |-> T("<=", 28, 100),
              check_e4 |-> T("<=", 28, 100), check_f1 |-> T("<=", 10121, 100),
              check_f2 |-> T("<=", 40, 100), check_f3 |-> T("<=", 37, 100),
              check_f4 |-> T("<=", 15, 100), check_g1 |-> T("<=", 38, 100),
              check_g2 |-> T("<=", 20000, 1), check_j1 |-> T("<=", 50, 100),
              check_j2 |-> T("<=", 70, 100), check_j3 |-> T(">=", 700, 1),
              check_j4 |-> T(">=", 700, 1), check_l1 |-> T("<=", 1, 100),
              check_s1 |-> T("<", 2, 100)]]
    IN  IF check_name \in DOMAIN thresholds[platform]
        THEN thresholds[platform][check_name] ELSE NoThreshold

\* eligibility_reports.py 43-56: one platform's half of
\* format_eligibility_results
FormatChecks(results, platform) ==
    LET passed == {k \in DOMAIN results : results[k].pass}
    IN  [checks |-> [k \in DOMAIN results |->
                        [value |-> results[k].value,
                         pass |-> results[k].pass,
                         threshold |-> get_threshold(k, platform)]],
         summary |-> [total_checks |-> Cardinality(DOMAIN results),
                      passed |-> Cardinality(passed),
                      failed |-> Cardinality(DOMAIN results \ passed),
                      informational |-> 0]]

\* eligibility_reports.py 8-75
format_eligibility_results(eligibility_prime, eligibility_sfy) ==
    [prime |-> FormatChecks(eligibility_prime, "prime"),
     sfy |-> FormatChecks(eligibility_sfy, "sfy")]

EligInput == call.pc = "eligibility_input"

\* the population a run passes to the checks (pipeline.py 384-385); buy_df,
\* the new loans, is a leading part of final_df_all
InitEligibility ==
    /\ ServiceIdle
    /\ \E df \in EligDfs : \E k \in {0, Len(df)} :
         call = [pc |-> "eligibility_input", final_df_all |-> df,
                 buy_df |-> SubSeq(df, 1, k),
                 eligibility_prime |-> << >>, eligibility_sfy |-> << >>,
                 formatted |-> << >>]

\* pipeline.py 384-385
check_eligibility_call ==
    /\ EligInput
    /\ call' = [call EXCEPT
         !.pc = "eligibility_done",
         !.eligibility_prime = check_eligibility_prime(call.final_df_all),
         !.eligibility_sfy =
             check_eligibility_sfy(call.final_df_all, call.buy_df)]
    /\ UNCHANGED <<runs, loanExceptions, loanFacts, proc, cancel, fix, inp, hist>>

\* pipeline.py 412-417, eligibility_reports.py 132-160
export_eligibility_report ==
    /\ call.pc = "eligibility_done"
    /\ call' = [call EXCEPT
         !.pc = "eligibility_reported",
         !.formatted = format_eligibility_results(call.eligibility_prime,
                                                  call.eligibility_sfy)]
    /\ UNCHANGED <<runs, loanExceptions, loanFacts, proc, cancel, fix, inp, hist>>

NextEligibility == check_eligibility_call \/ export_eligibility_report

SpecEligibility == InitEligibility /\ [][NextEligibility]_vars

(* --------------------------------------------- transforms/enrichment.py *)
MaxEnrichRows == 2     \* rows of buy_df, and rows of df_loans_types

\* the merged channel submissions: the columns enrich_buy_df reads
EnrichLoans ==
    [id : 1 .. MaxEnrichRows, prog : {"P", "Q"}, Platform : {"PRIME", "SFY"},
     dealer_fee : {5}]

EnrichBuyDfs == UNION {[1 .. n -> EnrichLoans] : n \in 0 .. MaxEnrichRows}

\* pipeline.py 291-307: df_loans_types, the 'MASTER_SHEET' rows followed by
\* the 'Notes' rows; nothing makes (loan program, Platform) a key of it
LoanTypeRows ==
    [prog : {"P", "Q"}, Platform : {"PRIME", "SFY"}, type : {"standard", "hybrid"}]

LoanTypeTables == UNION {[1 .. n -> LoanTypeRows] : n \in 0 .. MaxEnrichRows}

\* enrichment.py 61-71: the metadata columns and the fee as a fraction
Enriched(row, type) ==
    [id |-> row.id, prog |-> row.prog, Platform |-> row.Platform, type |-> type,
     Repurchase |-> FALSE, Repurchase_Date |-> Null, Purchase_Date |-> "pdate",
     Excess_Asset |-> FALSE, Borrowing_Base_eligible |-> TRUE,
     IRR_Support_Target |-> "irr_target",
     dealer_fee |-> Ratio(row.dealer_fee, 100)]

\* enrichment.py 55-59: the rows DataFrame.merge(how='left') gives for one
\* left row: one per right row with the same key, in the right table's order,
\* or one with the right columns null
RECURSIVE MergeRow(_, _)
MergeRow(row, df_loans_types) ==
    IF df_loans_types = << >> THEN << >>
    ELSE LET t == Head(df_loans_types)
             rest == MergeRow(row, Tail(df_loans_types))
         IN  IF t.prog = row.prog /\ t.Platform = row.Platform
             THEN <<Enriched(row, t.type)>> \o rest ELSE rest

\* enrichment.py 37-73
RECURSIVE enrich_buy_df(_, _)
enrich_buy_df(buy_df, df_loans_types) ==
    IF buy_df = << >> THEN << >>
    ELSE LET row == Head(buy_df)
             matched == MergeRow(row, df_loans_types)
         IN  (IF matched = << >> THEN <<Enriched(row, Null)>> ELSE matched)
             \o enrich_buy_df(Tail(buy_df), df_loans_types)

InitEnrich ==
    /\ ServiceIdle
    /\ \E b \in EnrichBuyDfs, t \in LoanTypeTables :
         call = [pc |-> "enrich_input", buy_df |-> b, df_loans_types |-> t,
                 enriched |-> << >>]

\* pipeline.py 310
enrich_buy_df_call ==
    /\ call.pc = "enrich_input"
    /\ call' = [call EXCEPT
         !.pc = "enriched",
         !.enriched = enrich_buy_df(call.buy_df, call.df_loans_types)]
    /\ UNCHANGED <<runs, loanExceptions, loanFacts, proc, cancel, fix, inp, hist>>

NextEnrich == enrich_buy_df_call

SpecEnrich == InitEnrich /\ [][NextEnrich]_vars

(* ---------------- routes.py 374-423, orchestration/s3_input_sync.py *)
\* The part of create_pipeline_run that stages the inputs: the listing and the
\* download of the S3 input area into a scratch directory, the call of
\* execute() and the finally block.  call.fs is the set of scratch
\* directories on disk, call.made the number of mkdtemp calls so far.
NumScratchReq == 3     \* requests that reach routes.py 374
MaxFiles == 2          \* files under the S3 input prefix

ScratchReqs == 1 .. NumScratchReq

NoDir == 0             \* temp_dir = None

IdleReq ==
    [pc |-> "idle", temp_dir |-> NoDir, sync_dir |-> NoDir, todo |-> 0,
     created |-> {}, cancelled |-> FALSE, resp |-> 0]

\* variant: a cleanup that removes nothing
remove_temp_input_dir_skipped(fs, temp_dir) == fs

\* s3_input_sync.py 59-67
remove_temp_input_dir(fs, temp_dir) ==
    IF temp_dir = NoDir THEN fs ELSE fs \ {temp_dir}

InitScratch ==
    /\ ServiceIdle
    /\ call = [pc |-> "scratch", fs |-> {}, made |-> 0,
               req |-> [p \in ScratchReqs |-> IdleReq]]

ScratchStep(p, from) == call.pc = "scratch" /\ call.req[p].pc = from

ServiceUnchanged ==
    UNCHANGED <<runs, loanExceptions, loanFacts, proc, cancel, fix, inp, hist>>

\* routes.py 397-398: STORAGE_TYPE is not "s3", temp_dir stays None
request_local(p) ==
    /\ ScratchStep(p, "idle")
    /\ call' = [call EXCEPT !.req[p].pc = "execute"]
    /\ ServiceUnchanged

\* routes.py 375-380
request_s3(p) ==
    /\ ScratchStep(p, "idle")
    /\ call' = [call EXCEPT !.req[p].pc = "list"]
    /\ ServiceUnchanged

\* s3_input_sync.py 25-35, routes.py 384-396: list_files raises, or the
\* prefix holds no file; no directory has been made; the response is a 400
sync_list_fails(p) ==
    /\ ScratchStep(p, "list")
    /\ call' = [call EXCEPT !.req[p].pc = "done", !.req[p].resp = 400]
    /\ ServiceUnchanged

\* s3_input_sync.py 32-37: n files are listed and mkdtemp makes a directory
sync_mkdtemp(p, n) ==
    /\ ScratchStep(p, "list")
    /\ LET dir == call.made + 1
       IN  call' = [call EXCEPT
             !.made = dir, !.fs = @ \cup {dir},
             !.req[p].pc = "download", !.req[p].sync_dir = dir,
             !.req[p].todo = n, !.req[p].created = @ \cup {dir}]
    /\ ServiceUnchanged

\* s3_input_sync.py 39-50: one file is read and written
sync_read_file(p) ==
    /\ ScratchStep(p, "download")
    /\ call.req[p].todo > 0
    /\ call' = [call EXCEPT !.req[p].todo = @ - 1]
    /\ ServiceUnchanged

\* s3_input_sync.py 53-55, routes.py 392-396: a read or a write raises;
\* the directory is removed, the exception becomes a 400
sync_read_file_raises(p) ==
    /\ ScratchStep(p, "download")
    /\ call.req[p].todo > 0
    /\ call' = [call EXCEPT
         !.fs = @ \ {call.req[p].sync_dir},
         !.req[p].pc = "done", !.req[p].resp = 400]
    /\ ServiceUnchanged

\* s3_input_sync.py 51-52, routes.py 381-383
sync_returns(p) ==
    /\ ScratchStep(p, "download")
    /\ call.req[p].todo = 0
    /\ call' = [call EXCEPT
         !.req[p].pc = "execute", !.req[p].temp_dir = call.req[p].sync_dir]
    /\ ServiceUnchanged

\* routes.py cancel_run while execute() runs: the run is labelled CANCELLED,
\* the request goes on
cancel_label(p) ==
    /\ ScratchStep(p, "execute")
    /\ ~call.req[p].cancelled
    /\ call' = [call EXCEPT !.req[p].cancelled = TRUE]
    /\ ServiceUnchanged

\* routes.py 400-407
executor_returns(p) ==
    /\ ScratchStep(p, "execute")
    /\ call' = [call EXCEPT !.req[p].pc = "finally", !.req[p].resp = 200]
    /\ ServiceUnchanged

\* routes.py 414-420
executor_raises(p) ==
    /\ ScratchStep(p, "execute")
    /\ call' = [call EXCEPT !.req[p].pc = "finally", !.req[p].resp = 500]
    /\ ServiceUnchanged

\* routes.py 421-423
finally_remove(p) ==
    /\ ScratchStep(p, "finally")
    /\ call' = [call EXCEPT
         !.fs = remove_temp_input_dir(@, call.req[p].temp_dir),
         !.req[p].pc = "done"]
    /\ ServiceUnchanged

NextScratch ==
    \E p \in ScratchReqs :
        \/ request_local(p)
        \/ request_s3(p)
        \/ sync_list_fails(p)
        \/ \E n \in 1 .. MaxFiles : sync_mkdtemp(p, n)
        \/ sync_read_file(p)
        \/ sync_read_file_raises(p)
        \/ sync_returns(p)
        \/ cancel_label(p)
        \/ executor_returns(p)
        \/ executor_raises(p)
        \/ finally_remove(p)

SpecScratch == InitScratch /\ [][NextScratch]_vars

(* ------------------------------ routes.py 426-484: list_runs, get_run *)
\* Two run stores are queried by the same user with the same parameters.  A
\* store is the pipeline_runs table in the order of created_at; the stores of
\* a state agree on the runs of the user's scope.
MaxStore == 2          \* rows of a run store

StoreRows ==
    [run_id : 1 .. MaxStore + 1, team : {NoTeam, 1, 2},
     status : {RUNNING, COMPLETED}, run_weekday : {0}]

Stores ==
    {s \in UNION {[1 .. n -> StoreRows] : n \in 0 .. MaxStore} :
        \A i, j \in DOMAIN s : i # j => s[i].run_id # s[j].run_id}

\* variant: the query is returned as it came
filter_query_all(query, u) == query

\* routes.py 159-166, on a query: the rows of the user's team for a sales
\* team member, every row for an admin
filter_query(query, u) ==
    IF Role(u) = "sales_team" /\ UserTeam(u) # NoTeam
    THEN SelectSeq(query, LAMBDA r : r.team = UserTeam(u))
    ELSE query

\* the rows a user's scope holds: what two stores must agree on
InScope(store, u) ==
    IF Role(u) = "sales_team"
    THEN SelectSeq(store, LAMBDA r : r.team = UserTeam(u))
    ELSE store

RECURSIVE Reversed(_)
Reversed(s) == IF s = << >> THEN << >> ELSE Append(Reversed(Tail(s)), Head(s))

\* routes.py 436-462; 400 for a status that is no RunStatus; run_weekday is
\* {} for None and {d} for the day d
list_runs(store, u, status, run_weekday, skip, limit) ==
    LET q1 == filter_query(store, u)
        q2 == IF status = Null THEN q1
              ELSE SelectSeq(q1, LAMBDA r : r.status = status)
        q3 == IF run_weekday = {} THEN q2
              ELSE SelectSeq(q2, LAMBDA r : r.run_weekday \in run_weekday)
        q4 == Reversed(q3)
        last == IF skip + limit < Len(q4) THEN skip + limit ELSE Len(q4)
    IN  IF status \notin {Null, PENDING, RUNNING, COMPLETED, FAILED, CANCELLED}
        THEN [code |-> 400, runs |-> << >>]
        ELSE [code |-> 200, runs |-> SubSeq(q4, skip + 1, last)]

\* routes.py 471-484
get_run(store, u, run_id) ==
    LET q == filter_query(SelectSeq(store, LAMBDA r : r.run_id = run_id), u)
    IN  IF q = << >> THEN [code |-> 404, runs |-> << >>]
        ELSE [code |-> 200, runs |-> <<Head(q)>>]

InitList ==
    /\ ServiceIdle
    /\ \E u \in Users, a \in Stores, b \in Stores :
         /\ InScope(a, u) = InScope(b, u)
         /\ call = [pc |-> "query", user |-> u, a |-> a, b |-> b,
                    res_a |-> [code |-> 0, runs |-> << >>],
                    res_b |-> [code |-> 0, runs |-> << >>]]

list_runs_call(status, run_weekday, skip, limit) ==
    /\ call.pc = "query"
    /\ call' = [call EXCEPT
         !.pc = "listed",
         !.res_a = list_runs(call.a, call.user, status, run_weekday, skip, limit),
         !.res_b = list_runs(call.b, call.user, status, run_weekday, skip, limit)]
    /\ ServiceUnchanged

get_run_call(run_id) ==
    /\ call.pc = "query"
    /\ call' = [call EXCEPT
         !.pc = "got",
         !.res_a = get_run(call.a, call.user, run_id),
         !.res_b = get_run(call.b, call.user, run_id)]
    /\ ServiceUnchanged

NextList ==
    \/ \E status \in {Null, RUNNING, "bogus"}, run_weekday \in {{}, {0}, {1}},
          skip \in {0, 1}, limit \in {1, 2} :
            list_runs_call(status, run_weekday, skip, limit)
    \/ \E run_id \in 1 .. MaxStore + 1 : get_run_call(run_id)

SpecList == InitList /\ [][NextList]_vars

(* ============================== pipeline.py 338-353, underwriting calls == *)
(* The three check_underwriting calls of execute() and the exceptions made  *)
(* from their lists, on a buy_df of one enriched loan (platform is the      *)
(* channel the enrichment gave it) and the three grids of the reference     *)
(* data.                                                                    *)
UwStageLoans ==
    [id : {1}, platform : {"PRIME", "SFY"}, app_type : {"STANDARD", "HD NOTE"},
     prog : {"P"}, mth_income : {1}, fico : {700, 701}, dti : {1}, pti : {1},
     balance : {1}]

UwStageRules ==
    [finance_type_name_nls : {"P", "Q"}, monthly_income_min : {1},
     fico_min : {700}, approval_high : {0, 1}, dti_max : {1}, pti_ratio : {1}]

UwStageGrids ==
    {{f[i] : i \in DOMAIN f} : f \in UNION {[1 .. n -> UwStageRules] : n \in 0 .. MaxRules}}

InitUwStage ==
    /\ ServiceIdle
    /\ \E row \in UwStageLoans, tu \in SUBSET {1},
          s \in UwStageGrids, p \in UwStageGrids, n \in UwStageGrids :
          call = [pc |-> "uwstage_input", buy_df |-> <<row>>, tuloans |-> tu,
                  underwriting_sfy |-> s, underwriting_prime |-> p,
                  underwriting_sfy_notes |-> n, exceptions |-> <<>>]

\* pipeline.py 338-353
underwriting_stage ==
    /\ call.pc = "uwstage_input"
    /\ LET Ids(l) == {l[k] : k \in 1 .. Len(l)}
           sfy == check_underwriting(call.buy_df, call.underwriting_sfy, FALSE,
                                     call.tuloans).flagged_loans
           prime == check_underwriting(call.buy_df, call.underwriting_prime, FALSE,
                                       call.tuloans).flagged_loans
           notes == check_underwriting(call.buy_df, call.underwriting_sfy_notes, TRUE,
                                       call.tuloans).flagged_loans
       IN  call' = [call EXCEPT
                      !.pc = "uwstage_done",
                      !.exceptions =
                          get_underwriting_exceptions(call.buy_df, Ids(sfy),
                                                      "underwriting_sfy")
                          \o get_underwriting_exceptions(call.buy_df, Ids(prime),
                                                         "underwriting_prime")
                          \o get_underwriting_exceptions(call.buy_df, Ids(notes),
                                                         "underwriting_notes")]
    /\ ServiceUnchanged

NextUwStage == underwriting_stage

SpecUwStage == InitUwStage /\ [][NextUwStage]_vars

(* ================= pipeline.py 382-485, what a run makes of the checks == *)
(* execute() from the eligibility phase to its result, as a function of the *)
(* rule lists of the run (in) and of the two eligibility dictionaries: the  *)
(* rows it persists, the status and counters it writes and the summary it   *)
(* returns.  A dictionary is a function from check names to pass values.    *)
EligCheckNames == {"check_a", "check_b1"}

EligOutcomes == UNION {[S -> BOOLEAN] : S \in SUBSET EligCheckNames}

\* pipeline.py 459-470
eligibility_summary(e) ==
    [total_checks |-> Cardinality(DOMAIN e),
     passed |-> Cardinality({n \in DOMAIN e : e[n]}),
     failed |-> Cardinality({n \in DOMAIN e : ~e[n]})]

\* variant: a failed check fails the run and is stored as an exception
execute_outcome_gated(in, eligibility_prime, eligibility_sfy) ==
    LET failed == \/ \E n \in DOMAIN eligibility_prime : ~eligibility_prime[n]
                  \/ \E n \in DOMAIN eligibility_sfy : ~eligibility_sfy[n]
        excs == all_exceptions(in)
                  \o (IF failed THEN <<Exc(0, "eligibility", "failed")>> ELSE <<>>)
    IN  [loan_exceptions |-> save_exceptions(excs),
         loan_facts |-> save_loan_facts(FinalDf(in), rejected_loans(excs)),
         status |-> IF failed THEN FAILED ELSE COMPLETED,
         total_loans |-> Len(FinalDf(in)),
         exceptions_count |-> Len(excs),
         eligibility_summary |-> [prime |-> eligibility_summary(eligibility_prime),
                                  sfy |-> eligibility_summary(eligibility_sfy)]]

\* pipeline.py 382-485
execute_outcome(in, eligibility_prime, eligibility_sfy) ==
    LET excs == all_exceptions(in)
    IN  [loan_exceptions |-> save_exceptions(excs),
         loan_facts |-> save_loan_facts(FinalDf(in), rejected_loans(excs)),
         status |-> COMPLETED,
         total_loans |-> Len(FinalDf(in)),
         exceptions_count |-> Len(excs),
         eligibility_summary |-> [prime |-> eligibility_summary(eligibility_prime),
                                  sfy |-> eligibility_summary(eligibility_sfy)]]

\* the dictionary with the same checks, all of them passing
AllPass(e) == [n \in DOMAIN e |-> TRUE]

InitOutcome ==
    /\ ServiceIdle
    /\ \E in \in Inputs, ep \in EligOutcomes, es \in EligOutcomes :
          call = [pc |-> "outcome_input", in |-> in, eligibility_prime |-> ep,
                  eligibility_sfy |-> es, result |-> << >>, all_pass |-> << >>]

\* the run on its eligibility results, and the same run with every check passing
execute_tail ==
    /\ call.pc = "outcome_input"
    /\ call' = [call EXCEPT
                  !.pc = "outcome_done",
                  !.result = execute_outcome(call.in, call.eligibility_prime,
                                             call.eligibility_sfy),
                  !.all_pass = execute_outcome(call.in, AllPass(call.eligibility_prime),
                                               AllPass(call.eligibility_sfy))]
    /\ ServiceUnchanged

NextOutcome == execute_tail

SpecOutcome == InitOutcome /\ [][NextOutcome]_vars

(* ================================================================ claims *)
TeamIds == Teams \cup {NoTeam}

\* C1: in every reachable state at most one PipelineRun per sales_team_id has
\* status RUNNING, whatever the interleaving of create_pipeline_run,
\* run_daily_pipeline, cancel_run and the executor's steps.
C1_OneRunningPerTeam ==
    \A t \in TeamIds : Cardinality({r \in RunningRuns : runs[r].team = t}) <= 1

\* the runs of the caller's tenant scope: those of the team of a sales-team
\* user, all runs for the other roles
C2_Scope(u) ==
    {r \in RunIds : runs[r].status # NoRow
                    /\ (Role(u) = "sales_team" => runs[r].team = UserTeam(u))}

C2_Arrives(p, u) ==
    proc[p].pc = "idle" /\ proc'[p].kind = "api" /\ proc'[p].user = u

\* C2: a create_pipeline_run request that arrives while a run of the caller's
\* scope is RUNNING is answered 409 and changes nothing in the run store: no
\* row is created for it (then or later) and no existing row is modified.
C2_RejectedWhileRunning ==
    /\ [][\A p \in Procs, u \in Users :
            (C2_Arrives(p, u) /\ \E r \in C2_Scope(u) : runs[r].status = RUNNING)
            => /\ proc'[p].resp = 409
               /\ proc'[p].pc = "done"
               /\ runs' = runs
               /\ loanExceptions' = loanExceptions
               /\ loanFacts' = loanFacts]_vars
    /\ [](\A p \in Procs : proc[p].resp = 409 => runs[p] = EmptyRow)

C2_Witness ==
    \E p \in Procs : proc[p].resp = 409 /\ \E r \in RunIds : runs[r].status = RUNNING

\* C3: once the status of a run is COMPLETED, FAILED or CANCELLED, no step of
\* the executor, of cancel_run or of the scheduler's failure handler changes it.
C3_TerminalImmutable ==
    [][\A r \in RunIds :
          runs[r].status \in Terminal => runs'[r].status = runs[r].status]_vars

IsPrefix(s, t) == Len(s) <= Len(t) /\ \A i \in 1 .. Len(s) : s[i] = t[i]

C4_Transitions ==
    {<<NoRow, PENDING>>, <<PENDING, RUNNING>>, <<RUNNING, COMPLETED>>, <<RUNNING, FAILED>>}

\* C4: for a run that is never cancelled, the status values the executor
\* writes are PENDING, RUNNING and then exactly one of COMPLETED or FAILED;
\* the stored status is the last one written, it changes only along
\* none -> PENDING -> RUNNING -> COMPLETED or FAILED, and when execute() has
\* ended all three have been written.
C4_StatusSequence ==
    /\ [](\A r \in RunIds : ~hist.cancelled[r] =>
            /\ \/ IsPrefix(hist.written[r], <<PENDING, RUNNING, COMPLETED>>)
               \/ IsPrefix(hist.written[r], <<PENDING, RUNNING, FAILED>>)
            /\ hist.written[r] # <<>> =>
                  runs[r].status = hist.written[r][Len(hist.written[r])]
            /\ hist.written[r] = <<>> => runs[r].status = NoRow
            /\ proc[r].pc \in {"returned", "raised", "done"} /\ proc[r].created =>
                  Len(hist.written[r]) = 3)
    /\ [][\A r \in RunIds :
            (~hist.cancelled'[r] /\ runs'[r].status # runs[r].status)
            => <<runs[r].status, runs'[r].status>> \in C4_Transitions]_vars

C4_Witness ==
    \E r \in RunIds :
        ~hist.cancelled[r] /\ hist.written[r] = <<PENDING, RUNNING, FAILED>>

SeqElems(s) == {s[i] : i \in 1 .. Len(s)}

\* C5: when execute() propagates an exception raised after the run record was
\* created, the run is FAILED, its errors hold the exception's message and
\* completed_at is set; no phase body is executed twice and none is executed
\* once the exception is in flight.
C5_FailureRecorded ==
    /\ [][\A p \in Procs :
            (proc[p].pc = "except" /\ proc'[p].pc = "raised" /\ proc[p].created)
            => /\ runs'[p].status = FAILED
               /\ proc[p].exc \in SeqElems(runs'[p].errors)
               /\ runs'[p].completed_at]_vars
    /\ [][\A p \in Procs :
            proc[p].pc \in {"except", "raised", "done"}
            => hist'.stages[p] = hist.stages[p]]_vars
    /\ [](\A p \in Procs : \A i, j \in 1 .. Len(hist.stages[p]) :
            i < j => hist.stages[p][i] < hist.stages[p][j])

C5_Witness ==
    \E p \in Procs :
        /\ proc[p].pc = "raised"
        /\ hist.cancelled[p]
        /\ runs[p].status = FAILED
        /\ runs[p].errors = <<proc[p].exc>>

ExpectedExceptions == save_exceptions(all_exceptions(inp))
ExpectedFacts == save_loan_facts(FinalDf(inp), rejected_loans(all_exceptions(inp)))

\* C6 (as stated): the COMPLETED status, the counters and all LoanException
\* and LoanFact rows of a run appear in one commit: a reader sees either all
\* of them or none.
C6_AtomicCommit ==
    \A r \in RunIds :
        IF runs[r].status = COMPLETED
        THEN loanExceptions[r] = ExpectedExceptions /\ loanFacts[r] = ExpectedFacts
        ELSE loanExceptions[r] = <<>> /\ loanFacts[r] = <<>>

\* C6 (amended): the exception rows, the fact rows and the COMPLETED status
\* with its counters are committed in that order, in three transactions: a run
\* is never COMPLETED before all its rows are committed and its counters count
\* them, fact rows are never visible before all exception rows, and committed
\* rows never change.
C6_CompletedAfterRows ==
    /\ [](\A r \in RunIds :
            /\ runs[r].status = COMPLETED =>
                  /\ loanExceptions[r] = ExpectedExceptions
                  /\ loanFacts[r] = ExpectedFacts
                  /\ runs[r].total_loans = Len(loanFacts[r])
                  /\ runs[r].exceptions_count = Len(loanExceptions[r])
            /\ loanFacts[r] # <<>> => loanExceptions[r] = ExpectedExceptions)
    /\ [][\A r \in RunIds :
            /\ loanExceptions[r] # <<>> => loanExceptions'[r] = loanExceptions[r]
            /\ loanFacts[r] # <<>> => loanFacts'[r] = loanFacts[r]]_vars

C6_Witness ==
    \E r \in RunIds :
        /\ runs[r].status = COMPLETED
        /\ Len(loanExceptions[r]) >= 2
        /\ Len(loanFacts[r]) >= 2

\* C7: when execute() has returned or raised, the run is COMPLETED, FAILED or
\* CANCELLED; it is COMPLETED, with result status 'completed', when no stage
\* was given an input it rejects, and FAILED when one was.
C7_TerminalOutcome ==
    \A p \in Procs :
        (proc[p].created /\ proc[p].pc \in {"returned", "raised"}) =>
            /\ runs[p].status \in Terminal
            /\ (~hist.inputFault[p] /\ ~hist.cancelled[p]) =>
                  runs[p].status = COMPLETED /\ proc[p].result = "completed"
            /\ (hist.inputFault[p] /\ ~hist.cancelled[p]) => runs[p].status = FAILED

C8_Mapped(r, loan) ==
    \E j \in 1 .. Len(loanExceptions[r]) :
        /\ loanExceptions[r][j].seller_loan_number = loan
        /\ <<loanExceptions[r][j].exception_type,
             loanExceptions[r][j].exception_category>> \in DOMAIN EXCEPTION_TYPE_TO_CRITERIA

\* C8: a persisted LoanFact has disposition rejected exactly when some
\* LoanException of the same run for the same loan has a mapped exception
\* type, and to_purchase otherwise; its rejection_criteria is set exactly when
\* it is rejected.
C8_DispositionIffException ==
    \A r \in RunIds : \A i \in 1 .. Len(loanFacts[r]) :
        LET f == loanFacts[r][i] IN
        /\ f.disposition = DISPOSITION_REJECTED <=> C8_Mapped(r, f.seller_loan_number)
        /\ ~C8_Mapped(r, f.seller_loan_number) => f.disposition = DISPOSITION_TO_PURCHASE
        /\ f.rejection_criteria # Null <=> f.disposition = DISPOSITION_REJECTED

C8_Witness ==
    \E r \in RunIds : \E i, j \in 1 .. Len(loanFacts[r]) :
        /\ loanFacts[r][i].disposition = DISPOSITION_REJECTED
        /\ loanFacts[r][i].rejection_criteria # Null
        /\ loanFacts[r][j].disposition = DISPOSITION_TO_PURCHASE

C9_RuleRank(type) ==
    IF type = "purchase_price" THEN 1
    ELSE IF type \in {"underwriting_sfy", "underwriting_prime", "underwriting_notes"} THEN 2
    ELSE 3

C9_Coded(r, loan) ==
    {j \in 1 .. Len(loanExceptions[r]) :
        /\ loanExceptions[r][j].seller_loan_number = loan
        /\ loanExceptions[r][j].rejection_criteria # Null}

\* C9: the exceptions of a run are persisted in rule-evaluation order
\* (purchase price, underwriting, CoMAP), and the rejection_criteria of a
\* rejected LoanFact is the code of the earliest LoanException of the same run
\* for that loan that has a code; such a LoanException exists.
C9_FirstExceptionCode ==
    \A r \in RunIds :
        /\ \A i, j \in 1 .. Len(loanExceptions[r]) :
              i < j => C9_RuleRank(loanExceptions[r][i].exception_type)
                         <= C9_RuleRank(loanExceptions[r][j].exception_type)
        /\ \A i \in 1 .. Len(loanFacts[r]) :
              LET f == loanFacts[r][i]
                  coded == C9_Coded(r, f.seller_loan_number)
              IN  f.disposition = DISPOSITION_REJECTED =>
                     /\ coded # {}
                     /\ \E j \in coded :
                           /\ \A k \in coded : j <= k
                           /\ f.rejection_criteria = loanExceptions[r][j].rejection_criteria

C9_Witness ==
    \E r \in RunIds : \E i \in 1 .. Len(loanFacts[r]) :
        \E j, k \in C9_Coded(r, loanFacts[r][i].seller_loan_number) :
            /\ j < k
            /\ loanExceptions[r][j].rejection_criteria
                  # loanExceptions[r][k].rejection_criteria
            /\ loanFacts[r][i].rejection_criteria = loanExceptions[r][j].rejection_criteria

C10_Submitted == {inp.buy[k].id : k \in 1 .. Len(inp.buy)}

\* C10: a persisted LoanFact of a loan that comes from the current-assets
\* extract and not from the channel submissions has disposition projected,
\* never to_purchase.
C10_ExistingProjected ==
    \A r \in RunIds : \A i \in 1 .. Len(loanFacts[r]) :
        LET f == loanFacts[r][i] IN
        (f.loan_data.src = "existing" /\ f.seller_loan_number \notin C10_Submitted)
            => f.disposition = DISPOSITION_PROJECTED

C11_Population == {FinalDf(inp)[k].id : k \in 1 .. Len(FinalDf(inp))}

\* C11: once a run is COMPLETED, no two of its LoanFact rows carry the same
\* loan number, and every loan of final_df (the channel submissions followed
\* by the retained current-assets rows) has exactly one LoanFact row.
C11_OneFactPerLoan ==
    \A r \in RunIds :
        runs[r].status = COMPLETED =>
            /\ \A i, j \in 1 .. Len(loanFacts[r]) :
                  loanFacts[r][i].seller_loan_number = loanFacts[r][j].seller_loan_number
                     => i = j
            /\ \A loan \in C11_Population :
                  Cardinality({i \in 1 .. Len(loanFacts[r]) :
                                  loanFacts[r][i].seller_loan_number = loan}) = 1

\* the claim's inputs: both columns present, a modeled price of three decimals
C12_Domain == call.pc = "price_done" /\ call.columns /\ call.modeled % 100 = 0

\* C12 (as stated): with both price fields present, purchase_price_check is
\* true iff round(lender_pct, 2) = round(modeled_price * 100, 2) (a lender
\* percentage on a rounding tie may go either way).
C12_RoundedEquality ==
    C12_Domain =>
        /\ Round2(call.lender) = {call.rounded} => call.purchase_price_check
        /\ call.rounded \notin Round2(call.lender) => ~call.purchase_price_check

Abs(x) == IF x < 0 THEN -x ELSE x

\* C12 (amended): with both price fields present, purchase_price_check is true
\* iff lender_pct itself, not rounded, equals round(modeled_price * 100, 2): it
\* is false for a lender percentage with a third decimal, true for one of two
\* decimals less than 0.005 away from modeled_price * 100, and false for one
\* more than 0.005 away.
C12_ExactLender ==
    (call.pc = "price_done" /\ call.columns) =>
        /\ call.purchase_price_check =>
              call.lender % 10 = 0 /\ Abs(call.lender - call.modeled) <= 5
        /\ (call.lender % 10 = 0 /\ Abs(call.lender - call.modeled) < 5)
              => call.purchase_price_check
        /\ call.lender % 10 # 0 => ~call.purchase_price_check

C12_Witness ==
    /\ call.pc = "price_done"
    /\ call.columns
    /\ call.purchase_price_check
    /\ call.modeled # call.lender

C13_FailsFull(row, g) ==
    ~\E u \in g : /\ u.finance_type_name_nls = row.prog
                  /\ u.monthly_income_min <= row.mth_income
                  /\ u.fico_min <= row.fico
                  /\ row.balance <= u.approval_high
                  /\ row.dti <= u.dti_max

C13_PassesRelaxed(row, g) ==
    /\ row.fico > 700
    /\ \E u \in g : /\ u.finance_type_name_nls = row.prog
                    /\ u.fico_min <= row.fico
                    /\ row.balance <= u.approval_high
                    /\ row.dti <= u.dti_max
                    /\ row.pti <= u.pti_ratio

C13_IsChecked(row) ==
    /\ (row.app_type = "HD NOTE") = call.is_notes
    /\ row.id \notin call.tuloans

\* C13: a checked loan that no grid row admits under the full criteria
\* (program, income, FICO, balance, DTI), that has FICO > 700 and that some
\* grid row of its program and FICO minimum admits on balance, DTI and PTI,
\* is in min_income_loans and is not in flagged_loans.
C13_SoftException ==
    call.pc = "uw_done" =>
        \A i \in 1 .. Len(call.buy_df) :
            LET row == call.buy_df[i] IN
            (C13_IsChecked(row) /\ C13_FailsFull(row, call.grid)
                /\ C13_PassesRelaxed(row, call.grid))
            => /\ row.id \in SeqElems(call.min_income_loans)
               /\ row.id \notin SeqElems(call.flagged_loans)

C13_Witness ==
    /\ call.pc = "uw_done"
    /\ call.min_income_loans = <<1>>
    /\ call.flagged_loans = <<>>
    /\ C13_FailsFull(call.buy_df[1], call.grid)
    /\ Cardinality(FilterRelaxed(call.grid, call.buy_df[1])) = 2

C14_Checked(row) ==
    /\ row.pp
    /\ row.app_type # "HD NOTE"
    /\ row.platform = (IF call.channel = "PRIME" THEN "prime" ELSE "sfy")

\* C14: two loans of one Prime or SFY check with the same program and FICO,
\* one submitted after the October 2025 cutover and one not, are looked up in
\* the grids of different generations: no grid serves both.
C14_GenerationByDate ==
    (call.pc = "comap_done" /\ call.channel \in {"PRIME", "SFY"}) =>
        \A i, j \in 1 .. Len(call.buy_df) :
            LET a == call.buy_df[i]
                b == call.buy_df[j]
            IN  (/\ C14_Checked(a) /\ C14_Checked(b)
                 /\ a.prog = b.prog /\ a.fico = b.fico
                 /\ IsAfter(a.submit, oct25_cutoff)
                 /\ ~IsAfter(b.submit, oct25_cutoff))
                => call.consulted[i] \cap call.consulted[j] = {}

C15_InGrid(grid, table, row) ==
    \E c \in DOMAIN table \cap DOMAIN grid.columns :
        row.prog \in grid.columns[c] /\ row.fico >= table[c]

C15_OfChannel(row) ==
    /\ row.pp
    /\ IF call.channel = "NOTES" THEN row.app_type = "HD NOTE"
       ELSE /\ row.app_type # "HD NOTE"
            /\ row.platform = (IF call.channel = "PRIME" THEN "prime" ELSE "sfy")

\* not in CoMAP under the generation(s) that apply to the loan's submit date
C15_NotInComap(row) ==
    LET ref == call.ref_data IN
    IF call.channel = "NOTES"
    THEN ~C15_InGrid(ref.notes_comap, NOTES_COMAP_COLS_MIN_FICO, row)
    ELSE IF call.channel = "PRIME"
    THEN IF IsAfter(row.submit, oct25_cutoff)
         THEN /\ ~C15_InGrid(ref.prime_comap_oct25, PRIME_COMAP_COLS_MIN_FICO2, row)
              /\ ~C15_InGrid(ref.prime_comap_oct25, PRIME_COMAP_COLS_MIN_FICO, row)
         ELSE ~C15_InGrid(ref.prime_comap, PRIME_COMAP_COLS_MIN_FICO, row)
    ELSE IF IsAfter(row.submit, oct25_cutoff)
         THEN /\ ~C15_InGrid(ref.sfy_comap_oct25, SFY_COMAP_COLS_MIN_FICO3, row)
              /\ ~C15_InGrid(ref.sfy_comap_oct25_2, SFY_COMAP_COLS_MIN_FICO2, row)
         ELSE /\ ~C15_InGrid(ref.sfy_comap, SFY_COMAP_COLS_MIN_FICO, row)
              /\ ~C15_InGrid(ref.sfy_comap2, SFY_COMAP_COLS_MIN_FICO2, row)

\* C15: in each of the three checks, a loan of the channel that passed the
\* purchase-price check and is not in CoMAP (its program is in no band
\* column, or its FICO is below the minimum of every band column that lists
\* its program) is in loan_not_in_comap once and gets exactly one exception,
\* of category not_in_comap and severity error.
C15_ReportedOnce ==
    call.pc = "comap_done" =>
        \A i \in 1 .. Len(call.buy_df) :
            LET row == call.buy_df[i] IN
            (C15_OfChannel(row) /\ C15_NotInComap(row)) =>
                /\ Cardinality({j \in 1 .. Len(call.loan_not_in_comap) :
                                   call.loan_not_in_comap[j].id = row.id}) = 1
                /\ Cardinality({j \in 1 .. Len(call.exceptions) :
                        /\ call.exceptions[j].seller_loan_number = row.id
                        /\ call.exceptions[j].exception_category = "not_in_comap"
                        /\ call.exceptions[j].severity = "error"}) = 1

EligCalled == call.pc \in {"eligibility_done", "eligibility_reported"}

PrimeRatioChecks ==
    {"check_a", "check_b1", "check_b3", "check_c", "check_d", "check_e",
     "check_f", "check_g", "check_h2", "check_h3", "check_i1", "check_l1",
     "check_l2", "check_s1"}

SfyRatioChecks ==
    {"check_a1", "check_a2", "check_b1", "check_b2", "check_b3", "check_b4",
     "check_c1", "check_d1", "check_d2", "check_d3", "check_d4", "check_e1",
     "check_e2", "check_e3", "check_e4", "check_f2", "check_f3", "check_f4",
     "check_g1", "check_j1", "check_j2", "check_l1", "check_s1"}

IsZero(v) == v.n = 0 /\ v.d # 0

C16_ZeroEntries(results, names) ==
    \A k \in names :
        k \in DOMAIN results /\ IsZero(results[k].value) /\ results[k].pass

\* C16 (as stated): when final_df_all holds no loan of a channel, the
\* channel's check function returns for every ratio-based check of the
\* battery an entry with value 0 and pass true.
C16_ZeroAndPass ==
    EligCalled =>
        /\ OfPlatform(call.final_df_all, "prime") = << >> =>
               C16_ZeroEntries(call.eligibility_prime, PrimeRatioChecks)
        /\ OfPlatform(call.final_df_all, "sfy") = << >> =>
               C16_ZeroEntries(call.eligibility_sfy, SfyRatioChecks)

\* C16 (amended): when final_df_all holds no loan of a channel, the channel's
\* check function returns the empty mapping; it has no entry for any check,
\* and the call returns (no division is attempted).
C16_EmptyBattery ==
    EligCalled =>
        /\ OfPlatform(call.final_df_all, "prime") = << >> =>
               call.eligibility_prime = << >>
        /\ OfPlatform(call.final_df_all, "sfy") = << >> =>
               call.eligibility_sfy = << >>

\* the checks have run on a population with SFY loans and no Prime loan
C16_Witness ==
    /\ call.pc = "eligibility_done"
    /\ OfPlatform(call.final_df_all, "prime") = << >>
    /\ Len(OfPlatform(call.final_df_all, "sfy")) = 2
    /\ call.eligibility_prime = << >>
    /\ "check_a1" \in DOMAIN call.eligibility_sfy

\* the loans the claim names: term above 144 and FICO below 700
C17_Named(r) == r.Term > 144 /\ r.fico < 700

\* the loans check_b1 counts
C17_Counted(r) == ~r.Repurchase /\ r.type = "standard" /\ C17_Named(r)

C17_PrimeDf == OfPlatform(call.final_df_all, "prime")

C17_NamedBalance ==
    BalWhere(C17_PrimeDf, [i \in DOMAIN C17_PrimeDf |-> C17_Named(C17_PrimeDf[i])])

C17_CountedBalance ==
    BalWhere(C17_PrimeDf, [i \in DOMAIN C17_PrimeDf |-> C17_Counted(C17_PrimeDf[i])])

C17_PrimeBalance == SumSeq([i \in DOMAIN C17_PrimeDf |-> C17_PrimeDf[i].balance])

\* the comparison a shown threshold names, applied to a value
C17_Meets(v, th) ==
    CASE th.op = "<" -> Lt(v, th.n, th.d)
      [] th.op = "<=" -> Le(v, th.n, th.d)
      [] th.op = ">" -> Gt(v, th.n, th.d)
      [] th.op = ">=" -> Ge(v, th.n, th.d)
      [] OTHER -> FALSE

C17_ShownIsUsed ==
    call.pc = "eligibility_reported" /\ call.eligibility_prime # << >> =>
        LET c == call.formatted.prime.checks["check_b1"]
        IN  c.threshold # NoThreshold /\ (c.pass <=> C17_Meets(c.value, c.threshold))

\* C17 (as stated): check_b1 passes iff the loans with term > 144 and
\* FICO < 700 are strictly below 5% of the Prime balance, and the report
\* shows the threshold that decided it.
C17_BelowFivePercent ==
    /\ EligCalled /\ call.eligibility_prime # << >> =>
           (call.eligibility_prime["check_b1"].pass
                <=> 100 * C17_NamedBalance < 5 * C17_PrimeBalance)
    /\ C17_ShownIsUsed

\* C17 (amended): check_b1 passes iff the standard-type, non-repurchased
\* loans with term > 144 and FICO < 700 are strictly below 3% of the Prime
\* balance, and the report shows '< 3%', the threshold that decided it.
C17_BelowThreePercent ==
    /\ EligCalled /\ call.eligibility_prime # << >> =>
           (call.eligibility_prime["check_b1"].pass
                <=> 100 * C17_CountedBalance < 3 * C17_PrimeBalance)
    /\ C17_ShownIsUsed
    /\ call.pc = "eligibility_reported" /\ call.eligibility_prime # << >> =>
           call.formatted.prime.checks["check_b1"].threshold
               = [op |-> "<", n |-> 3, d |-> 100]

\* the report is written for a Prime population in which the counted loans
\* are 4% of the balance: check_b1 fails and is shown with its threshold
C17_Witness ==
    /\ call.pc = "eligibility_reported"
    /\ C17_PrimeBalance = 100
    /\ C17_CountedBalance = 4
    /\ ~call.formatted.prime.checks["check_b1"].pass

\* C18: the output of enrich_buy_df has exactly one row per row of buy_df,
\* in the same order and with the same loan identifiers, for every buy_df and
\* every lookup table; a loan without a (program, channel) match is kept with
\* a null type; no loan is dropped or duplicated.
C18_OneToOne ==
    call.pc = "enriched" =>
        /\ Len(call.enriched) = Len(call.buy_df)
        /\ \A i \in DOMAIN call.buy_df :
             /\ call.enriched[i].id = call.buy_df[i].id
             /\ (\A k \in DOMAIN call.df_loans_types :
                    ~ (/\ call.df_loans_types[k].prog = call.buy_df[i].prog
                       /\ call.df_loans_types[k].Platform = call.buy_df[i].Platform))
                => call.enriched[i].type = Null

C19_Requests == IF call.pc = "scratch" THEN 1 .. NumScratchReq ELSE {}

\* C19: when a run request has finished, no scratch directory that
\* sync_s3_input_to_temp made for it is left on disk, whether the download
\* failed midway, execute() returned, execute() raised, or the run was
\* cancelled meanwhile.
C19_ScratchRemoved ==
    \A p \in C19_Requests :
        call.req[p].pc = "done" => call.req[p].created \cap call.fs = {}

\* three finished requests that each had a scratch directory: one whose
\* download failed midway, one whose execute() returned, one that was
\* cancelled and whose execute() raised
C19_Witness ==
    /\ call.pc = "scratch"
    /\ \A p \in C19_Requests :
          call.req[p].pc = "done" /\ call.req[p].created # {}
    /\ \E p \in C19_Requests : call.req[p].resp = 400 /\ call.req[p].todo = 1
    /\ \E p \in C19_Requests : call.req[p].resp = 200 /\ ~call.req[p].cancelled
    /\ \E p \in C19_Requests : call.req[p].resp = 500 /\ call.req[p].cancelled

PrimeInformational == {"check_j_state_dist", "check_l4"}

SfyInformational ==
    {"check_h_state_dist", "check_l2", "check_l3", "check_l4", "check_l5"}

C20_Pairs(results, informational) ==
    \A k \in DOMAIN results :
        /\ DOMAIN results[k] = {"value", "pass"}
        /\ results[k].pass \in BOOLEAN
        /\ k \in informational => results[k].pass

\* C20: every entry that check_eligibility_prime and check_eligibility_sfy
\* return is a {value, pass} pair, and the entries of the informational checks
\* (the state distributions, Prime check_l4, SFY check_l2 .. check_l5) have
\* pass = true for every population, whatever their value.
C20_InformationalPass ==
    EligCalled =>
        /\ C20_Pairs(call.eligibility_prime, PrimeInformational)
        /\ C20_Pairs(call.eligibility_sfy, SfyInformational)

\* both batteries are reported, all informational checks among them; the SFY
\* loans are all of type standard_bd (check_l2 = check_l5 = 100%) and a
\* thresholded check of each battery fails
C20_Witness ==
    /\ call.pc = "eligibility_done"
    /\ PrimeInformational \subseteq DOMAIN call.eligibility_prime
    /\ SfyInformational \subseteq DOMAIN call.eligibility_sfy
    /\ call.eligibility_sfy["check_l2"].value.n
           = call.eligibility_sfy["check_l2"].value.d
    /\ call.eligibility_sfy["check_l5"].value.n > 0
    /\ ~call.eligibility_sfy["check_j3"].pass
    /\ ~call.eligibility_prime["check_l3"].pass

C21_Asked == call.pc \in {"listed", "got"} /\ Role(call.user) = "sales_team"

\* C21: what list_runs and get_run return to a sales team member holds only
\* runs of the member's own team, and is the same for any two run stores that
\* agree on that team's runs.
C21_TeamIsolation ==
    C21_Asked =>
        /\ call.res_a = call.res_b
        /\ \A i \in DOMAIN call.res_a.runs :
              call.res_a.runs[i].team = UserTeam(call.user)

\* a sales team member is answered with a run of the own team by two stores
\* that differ in the runs of another team
C21_Witness ==
    /\ C21_Asked
    /\ call.a # call.b
    /\ \E i \in DOMAIN call.a : call.a[i].team \notin {NoTeam, UserTeam(call.user)}
    /\ call.res_a.code = 200
    /\ call.res_a.runs # << >>

C22_Successor(old, new) ==
    \/ old = "null" /\ new = Phases[1]
    \/ \E k \in 1 .. Len(Phases) - 1 : old = Phases[k] /\ new = Phases[k + 1]

\* the phase whose body a request executed last
C22_LastStage(p) == hist.stages[p][Len(hist.stages[p])]

\* C22: whenever last_phase of a run changes it moves to the next phase of
\* the fixed order (first to load_reference_data); and a run that is FAILED
\* carries in last_phase the phase whose body was running when it failed.
C22_PhaseOrder ==
    /\ [][\A r \in RunIds :
            runs'[r].last_phase # runs[r].last_phase
                => C22_Successor(runs[r].last_phase, runs'[r].last_phase)]_vars
    /\ [](\A r \in RunIds :
            runs[r].status = FAILED
                => /\ hist.stages[r] # << >>
                   /\ runs[r].last_phase = Phases[C22_LastStage(r)])

\* a run failed in its fifth phase after the four before it returned, and
\* another failed while loading its input files
C22_Witness ==
    /\ runs[1].status = FAILED
    /\ hist.stages[1] = <<1, 2, 3, 4, 5>>
    /\ runs[1].last_phase = "comap"
    /\ runs[2].status = FAILED
    /\ hist.stages[2] = <<1, 2>>
    /\ runs[2].last_phase = "load_input_files"

C23_Cancelled(row) ==
    [row EXCEPT !.status = CANCELLED, !.completed_at = TRUE,
                !.errors = Append(@, "Cancelled by user")]

\* C23: a cancel_run request changes the run store only by turning a run
\* that is RUNNING into CANCELLED with completed_at set and 'Cancelled by
\* user' appended to its errors; a request that finds another status is
\* answered 400 and changes nothing.
C23_OnlyRunning ==
    [][/\ (cancel.pc = "loaded" /\ cancel' # cancel) =>
            /\ runs[cancel.run].status = RUNNING
            /\ runs' = [runs EXCEPT ![cancel.run] = C23_Cancelled(@)]
       /\ (cancel.pc = "idle" /\ cancel' # cancel) =>
            /\ runs' = runs
            /\ cancel'.pc = "loaded" => runs[cancel'.run].status = RUNNING]_vars


C24_InFlight(p) ==
    proc[p].pc \in {"stage", "save_loan_facts", "update_completed", "archive"}

\* the step execute() takes from its position when nothing stops it
C24_Proceeds(p) ==
    CASE proc[p].pc = "stage" /\ proc[p].phase = SaveDbPhase ->
            /\ proc'[p].pc = "save_loan_facts"
            /\ loanExceptions'[p] =
                  loanExceptions[p] \o save_exceptions(all_exceptions(inp))
      [] proc[p].pc = "stage" /\ proc[p].phase # SaveDbPhase ->
            \/ proc'[p].pc = "stage" /\ proc'[p].phase = proc[p].phase + 1
            \/ proc'[p].pc = "except" /\ proc'[p].exc = "input_error"
      [] proc[p].pc = "save_loan_facts" ->
            /\ proc'[p].pc = "update_completed"
            /\ loanFacts'[p] =
                  loanFacts[p] \o save_loan_facts(FinalDf(inp),
                                                  rejected_loans(all_exceptions(inp)))
      [] proc[p].pc = "update_completed" ->
            proc'[p].pc = "archive" /\ runs'[p].status = COMPLETED
      [] proc[p].pc = "archive" -> proc'[p].pc = "returned"
      [] OTHER -> TRUE

C25_Freed(u) ==
    /\ filter_by_sales_team(RunningRuns, u) = {}
    /\ \E r \in filter_by_sales_team(RunIds, u) :
          hist.cancelled[r] /\ runs[r].status = CANCELLED

\* C25: a create_pipeline_run request handled when the caller's scope holds
\* a cancelled run and no RUNNING run is accepted (no 409), whether or not
\* the executor of the cancelled run has finished.
C25_SlotFreed ==
    [][\A p \in Procs :
          (proc[p].pc = "idle" /\ proc'[p].kind = "api" /\ C25_Freed(proc'[p].user))
              => proc'[p].pc = "create" /\ proc'[p].resp # 409]_vars

\* request 2 was accepted and has not created its run yet, while the
\* executor of the cancelled run 1 is still in its stages
C25_Witness ==
    /\ hist.cancelled[1]
    /\ runs[1].status = CANCELLED
    /\ proc[1].pc = "stage"
    /\ proc[2].kind = "api"
    /\ proc[2].pc = "create"
    /\ C25_Freed(proc[2].user)


\* the loan meets the full criteria of some row of grid g
C26_MeetsRow(g, row) ==
    \E u \in g : /\ u.finance_type_name_nls = row.prog
                 /\ u.monthly_income_min <= row.mth_income
                 /\ u.fico_min <= row.fico
                 /\ row.balance <= u.approval_high
                 /\ row.dti <= u.dti_max

C26_OwnGrid(row) ==
    IF row.platform = "SFY" THEN call.underwriting_sfy ELSE call.underwriting_prime

\* C26: a non-notes loan that meets the full criteria of some row of the
\* underwriting grid of its own channel has no underwriting exception of
\* any type after the underwriting calls of the run.
C26_OwnGridSuffices ==
    call.pc = "uwstage_done" =>
        \A i \in 1 .. Len(call.buy_df) :
            LET row == call.buy_df[i]
            IN  (row.app_type # "HD NOTE" /\ C26_MeetsRow(C26_OwnGrid(row), row))
                    => \A j \in 1 .. Len(call.exceptions) :
                          call.exceptions[j].seller_loan_number # row.id


C28_IsComap(type) == type \in {"comap", "comap_prime", "comap_sfy", "comap_notes"}

C28_NoLoanWithBoth(r) ==
    \A i, j \in 1 .. Len(loanExceptions[r]) :
        ~ /\ loanExceptions[r][i].seller_loan_number
                = loanExceptions[r][j].seller_loan_number
          /\ loanExceptions[r][i].exception_type = "purchase_price"
          /\ loanExceptions[r][i].exception_category = "mismatch"
          /\ C28_IsComap(loanExceptions[r][j].exception_type)
          /\ loanExceptions[r][j].exception_category = "not_in_comap"

C28_ComapRejectedHasPrice(r) ==
    \A i \in 1 .. Len(loanFacts[r]) :
        loanFacts[r][i].rejection_criteria
              \in {"notebook.comap_prime", "notebook.comap_sfy", "notebook.comap_notes"}
            => loanFacts[r][i].purchase_price_check

\* C28: among the rows persisted for a run, no loan number has both a
\* purchase_price/mismatch exception and a comap_*/not_in_comap exception,
\* and every loan fact rejected with a CoMAP code has purchase_price_check
\* true.
C28_PriceXorComap ==
    \A r \in RunIds : C28_NoLoanWithBoth(r) /\ C28_ComapRejectedHasPrice(r)


\* C29: a run whose status is COMPLETED has exceptions_count equal to the
\* number of LoanException rows persisted for it and total_loans equal to
\* the number of its LoanFact rows, whether or not a cancel request was
\* handled during the run.
C29_CountersMatchRows ==
    \A r \in RunIds :
        runs[r].status = COMPLETED
            => /\ runs[r].exceptions_count = Len(loanExceptions[r])
               /\ runs[r].total_loans = Len(loanFacts[r])

\* a run cancelled on the way and written COMPLETED, with a submitted loan,
\* an existing loan and an exception
C29_Witness ==
    /\ runs[1].status = COMPLETED
    /\ hist.cancelled[1]
    /\ runs[1].errors = <<"Cancelled by user">>
    /\ Len(loanFacts[1]) = MaxBuy + 1
    /\ Len(loanExceptions[1]) >= 1


C30_Marked(row, mark) ==
    /\ row.status = (IF mark = "failed" THEN FAILED ELSE CANCELLED)
    /\ row.completed_at

\* C30: the commit of run_mark changes only runs that are RUNNING when it
\* lands: each selected run that is RUNNING gets the chosen terminal status
\* and completed_at, and a run that is PENDING, COMPLETED, FAILED or
\* CANCELLED by then (one the executor completed after the script's query
\* included) is left as it is.
C30_MarksOnlyRunning ==
    [][(fix.pc = "queried" /\ fix'.pc = "idle") =>
          \A r \in RunIds :
              /\ runs'[r] # runs[r] => runs[r].status = RUNNING
              /\ (r \in fix.sel /\ runs[r].status = RUNNING)
                    => C30_Marked(runs'[r], fix.mark)]_vars

====
